---- MODULE Spec2Model ----
(***************************************************************************)
(* Catalog query and pricing engine of the product-catalog backend:        *)
(* JsonProductRepository (load, filter, sort, paginate), the two           *)
(* definitions of ListProductsUseCase found in list-products.usecase.ts    *)
(* (validate, execute, assemble) and the Product entity rules they use.    *)
(*                                                                         *)
(* An optional value (a TypeScript `T | undefined`) is a sequence of       *)
(* length 0 (undefined) or 1 (the value).                                  *)
(***************************************************************************)
EXTENDS Integers, Sequences, FiniteSets, TLC

VARIABLES
    now,          \* the wall clock read by `new Date()`
    definition,   \* which of the two definitions of a use case class is bound (1 or 2)
    products,     \* JsonProductRepository.products
    isLoaded,     \* JsonProductRepository.isLoaded
    loadPromise,  \* JsonProductRepository.loadPromise: "null", "fulfilled" or "rejected"
    pc,           \* position of the execute() call: "idle", "repository", "assemble", "done"
    query,        \* the ListProductsQuery of the call in progress
    sanitized,    \* validationResult.data
    repoSpec,     \* the ProductQuerySpecification handed to findMany
    repoCalls,    \* number of findMany invocations made by the call in progress
    repoResult,   \* the RepositoryResult of findMany
    result,       \* the UseCaseResult returned by execute()
    thrown,       \* TRUE when execute() rejected instead of returning a result
    steps,        \* the processing steps of the call in progress, in execution order
    calledAt,     \* the clock reading when the call in progress was made
    pager,        \* a client that walks the pages of one query
    entity,       \* the Product instance under inspection (Product.create)
    reads,        \* what the methods called on that instance have returned
    ops,          \* the repository operations in flight, one per caller
    fileReads,    \* how many times fs.readFile has been called on the dataset
    paymentMethod, \* the PaymentMethod instance under inspection (PaymentMethod.create)
    paymentInput, \* the data last handed to PaymentMethod.create
    installments, \* the last calculateInstallmentOptions call: its amount and its options
    transactionFees, \* the last calculateTransactionFees call: its amount and its outcome
    seller,       \* the Seller instance under inspection (Seller.create)
    sellerInput,  \* the data last handed to Seller.create
    reputation,   \* the last getReputationScore call: its time and its score
    dataFile,     \* what fs.readFile of the data file settled with, once it has
    request,      \* the query string of the HTTP list request being served
    sorter        \* the applySorting call at hand: the array passed, before and after, and the result

\* the state of the list query and of the repository it reads
listVars == <<definition, products, isLoaded, loadPromise, pc, query, sanitized,
              repoSpec, repoCalls, repoResult, result, thrown, steps, calledAt, pager>>

\* the state of one Product instance and of the calls made on it
entityVars == <<entity, reads>>

\* the state of the components the list query does not touch
\* the state of the callers of the repository
callerVars == <<ops, fileReads, dataFile>>

\* the state of one PaymentMethod instance and of the call made on it
paymentVars == <<paymentMethod, paymentInput, installments, transactionFees>>

\* the state of one Seller instance and of the call made on it
sellerVars == <<seller, sellerInput, reputation>>

componentVars == <<entityVars, sorter, callerVars, paymentVars, sellerVars, request>>

vars == <<now, listVars, componentVars>>

(***************************************************************************)
(* Bounds of the model                                                     *)
(***************************************************************************)
MaxTime == 1
MaxCatalog == 3
MaxPage == 2
MaxLimit == 2
MaxStock == 4
MaxThreshold == 1

(***************************************************************************)
(* Program constants                                                       *)
(***************************************************************************)
maxResultsPerPage == 100
defaultPageSize == 20
Infinity == 1000000
FacetCategoryTop == 10
FacetSellerTop == 5
PopularTagsTop == 10
SimilarProductsTop == 20
MinInstallments == 2
MaxInstallments == 24
MaxTotalFeePercentage == 15
MaxAuthorizationTime == 30
MinimumInstallmentValue == 5
InterestFreeQuantities == 6
CertificationPoints == 25
defaultQueryLimit == 20

Undefined == <<>>
Some(v) == <<v>>
IsDefined(o) == o # <<>>
Val(o) == o[1]
OrElse(o, d) == IF o = <<>> THEN d ELSE o[1]

Max(a, b) == IF a >= b THEN a ELSE b
Min(a, b) == IF a <= b THEN a ELSE b
Abs(a) == IF a < 0 THEN -a ELSE a

SeqToSet(s) == {s[i] : i \in 1..Len(s)}

\* Array.prototype.slice(from, to): 0-based, end-exclusive, a negative index
\* counts from the end
Slice(s, from, to) ==
    LET f == IF from < 0 THEN Max(Len(s) + from, 0) ELSE Min(from, Len(s))
        t == IF to < 0 THEN Max(Len(s) + to, 0) ELSE Min(to, Len(s))
    IN  IF f >= t THEN <<>> ELSE SubSeq(s, f + 1, t)

(***************************************************************************)
(* The dataset: raw product records of products.json                       *)
(***************************************************************************)
NoDiscount == Undefined
Discount(pct, amt, until) == Some([percentage |-> pct, amount |-> amt, validUntil |-> until])

ProductPool == <<
    [id |-> "P1", title |-> "b", category |-> "electronics", subcategory |-> "phones",
     sellerId |-> "s1", sellerName |-> "Alpha", price |-> 100, currency |-> "BRL",
     discount |-> Discount(20, 0, Undefined), condition |-> "new", isActive |-> TRUE,
     stock |-> [available |-> 10, reserved |-> 0, threshold |-> 2],
     tags |-> <<"t1", "t2">>, rating |-> [average |-> 4, count |-> 10],
     primaryImages |-> 1, createdAt |-> 1],
    [id |-> "P2", title |-> "a", category |-> "electronics", subcategory |-> "tv",
     sellerId |-> "s2", sellerName |-> "Beta", price |-> 80, currency |-> "BRL",
     discount |-> NoDiscount, condition |-> "used", isActive |-> TRUE,
     stock |-> [available |-> 2, reserved |-> 0, threshold |-> 2],
     tags |-> <<"t1">>, rating |-> [average |-> 4, count |-> 10],
     primaryImages |-> 1, createdAt |-> 1],
    [id |-> "P3", title |-> "c", category |-> "home", subcategory |-> "decor",
     sellerId |-> "s1", sellerName |-> "Alpha", price |-> 50, currency |-> "BRL",
     discount |-> Discount(0, 60, Some(1)), condition |-> "refurbished", isActive |-> TRUE,
     stock |-> [available |-> 5, reserved |-> 1, threshold |-> 1],
     tags |-> <<>>, rating |-> [average |-> 2, count |-> 3],
     primaryImages |-> 1, createdAt |-> 3],
    [id |-> "P4", title |-> "c", category |-> "home", subcategory |-> "decor",
     sellerId |-> "s2", sellerName |-> "Beta", price |-> 120, currency |-> "R$1",
     discount |-> Discount(0, 0, Undefined), condition |-> "new", isActive |-> FALSE,
     stock |-> [available |-> 0, reserved |-> 0, threshold |-> 0],
     tags |-> <<"t2">>, rating |-> [average |-> 5, count |-> 1],
     primaryImages |-> 1, createdAt |-> 2] >>

RECURSIVE SubSequences(_, _)
\* the datasets: the records of the pool, in pool order, at most n of them
SubSequences(s, n) ==
    IF s = <<>> \/ n = 0 THEN {<<>>}
    ELSE SubSequences(Tail(s), n)
         \cup {<<Head(s)>> \o r : r \in SubSequences(Tail(s), n - 1)}

RawCatalogs == SubSequences(ProductPool, MaxCatalog)

TitleOrder == <<"a", "b", "c", "d">>
\* String.prototype.localeCompare on the titles of the dataset
localeCompare(a, b) ==
    (CHOOSE i \in 1..Len(TitleOrder) : TitleOrder[i] = a)
    - (CHOOSE i \in 1..Len(TitleOrder) : TitleOrder[i] = b)

\* the currency strings of length 3 (validatePrice) and, among them, the ones
\* made of three ASCII letters, which Intl.NumberFormat requires
ThreeCharCurrencies == {"BRL", "USD", "R$1"}
WellFormedCurrencies == {"BRL", "USD"}

(***************************************************************************)
(* Product entity                                                          *)
(***************************************************************************)
validatePrice(p) == ~(p.price <= 0) /\ p.currency \in ThreeCharCurrencies

validateImages(p) == p.primaryImages = 1

validateRating(p) ==
    /\ ~(p.rating.average < 0 \/ p.rating.average > 5)
    /\ ~(p.rating.count < 0)

validateStock(p) ==
    /\ ~(p.stock.available < 0 \/ p.stock.reserved < 0)
    /\ ~(p.stock.threshold < 0)

validateDiscount(p) ==
    IsDefined(p.discount) =>
        LET d == Val(p.discount) IN
        /\ ~(d.percentage < 0 \/ d.percentage > 100)
        /\ ~(d.amount < 0)
        /\ ~(IsDefined(d.validUntil) /\ Val(d.validUntil) < now)

\* TRUE iff the Product constructor does not throw
validateBusinessRules(p) ==
    /\ validatePrice(p)
    /\ validateImages(p)
    /\ validateRating(p)
    /\ validateStock(p)
    /\ validateDiscount(p)

isDiscountValid(p) ==
    IF ~IsDefined(p.discount) THEN FALSE
    ELSE \/ ~IsDefined(Val(p.discount).validUntil)
         \/ Val(Val(p.discount).validUntil) > now

getFinalPrice(p) ==
    IF ~IsDefined(p.discount) \/ ~isDiscountValid(p) THEN p.price
    ELSE LET d == Val(p.discount)
             discountAmount == IF d.percentage > 0
                               THEN (p.price * d.percentage) \div 100
                               ELSE d.amount
         IN  p.price - discountAmount   \* Math.max of a single argument

\* isAvailable with the threshold itself counted as enough stock
isAvailableAtThreshold(p) ==
    /\ p.isActive
    /\ p.stock.available > 0
    /\ p.stock.available >= p.stock.threshold

isAvailable(p) ==
    /\ p.isActive
    /\ p.stock.available > 0
    /\ p.stock.available > p.stock.threshold

getSavingsAmount(p) == p.price - getFinalPrice(p)

\* TRUE iff getFormattedPrice returns; Intl.NumberFormat throws a RangeError otherwise
getFormattedPriceReturns(p) == p.currency \in WellFormedCurrencies

\* calculateAvailability with the level `medium` ending at twice the threshold
calculateAvailabilityDouble(p) ==
    LET available == isAvailable(p)
        availableStock == p.stock.available
    IN  IF ~available \/ availableStock = 0
        THEN [isAvailable |-> available, stockLevel |-> "out_of_stock",
              availabilityText |-> [text |-> "Produto indisponivel", units |-> Undefined]]
        ELSE IF availableStock <= p.stock.threshold
        THEN [isAvailable |-> available, stockLevel |-> "low",
              availabilityText |-> [text |-> "Ultimas unidades", units |-> Some(availableStock)]]
        ELSE IF availableStock <= p.stock.threshold * 2
        THEN [isAvailable |-> available, stockLevel |-> "medium",
              availabilityText |-> [text |-> "Estoque limitado", units |-> Undefined]]
        ELSE [isAvailable |-> available, stockLevel |-> "high",
              availabilityText |-> [text |-> "Produto disponivel", units |-> Undefined]]

\* GetProductDetailsUseCase.calculateAvailability; the text of the level `low`
\* carries the number of units left
calculateAvailability(p) ==
    LET available == isAvailable(p)
        availableStock == p.stock.available
    IN  IF ~available \/ availableStock = 0
        THEN [isAvailable |-> available, stockLevel |-> "out_of_stock",
              availabilityText |-> [text |-> "Produto indisponivel", units |-> Undefined]]
        ELSE IF availableStock <= p.stock.threshold
        THEN [isAvailable |-> available, stockLevel |-> "low",
              availabilityText |-> [text |-> "Ultimas unidades", units |-> Some(availableStock)]]
        ELSE IF availableStock <= p.stock.threshold * 3
        THEN [isAvailable |-> available, stockLevel |-> "medium",
              availabilityText |-> [text |-> "Estoque limitado", units |-> Undefined]]
        ELSE [isAvailable |-> available, stockLevel |-> "high",
              availabilityText |-> [text |-> "Produto disponivel", units |-> Undefined]]

(***************************************************************************)
(* JsonProductRepository: filtering, sorting, pagination                   *)
(***************************************************************************)
\* JavaScript truthiness of a defined string or number
TruthyString(o) == IsDefined(o) /\ Val(o) # ""
TruthyNumber(o) == IsDefined(o) /\ Val(o) # 0

NoFilters ==
    [category |-> Undefined, subcategory |-> Undefined, sellerId |-> Undefined,
     minPrice |-> Undefined, maxPrice |-> Undefined, condition |-> Undefined,
     isActive |-> Undefined, hasDiscount |-> Undefined, inStock |-> Undefined,
     tags |-> Undefined, rating |-> Undefined]

FilterFields == DOMAIN NoFilters

\* the callback of products.filter in applyFilters
matchesFilters(product, filters) ==
    /\ ~(TruthyString(filters.category) /\ product.category # Val(filters.category))
    /\ ~(TruthyString(filters.subcategory) /\ product.subcategory # Val(filters.subcategory))
    /\ ~(TruthyString(filters.sellerId) /\ product.sellerId # Val(filters.sellerId))
    /\ ~(TruthyNumber(filters.minPrice) /\ getFinalPrice(product) < Val(filters.minPrice))
    /\ ~(TruthyNumber(filters.maxPrice) /\ getFinalPrice(product) > Val(filters.maxPrice))
    /\ ~(TruthyString(filters.condition) /\ product.condition # Val(filters.condition))
    /\ ~(IsDefined(filters.isActive) /\ product.isActive # Val(filters.isActive))
    /\ (IsDefined(filters.hasDiscount) =>
          LET hasDiscount == IsDefined(product.discount) /\ getSavingsAmount(product) > 0
          IN  hasDiscount = Val(filters.hasDiscount))
    /\ ~(IsDefined(filters.inStock) /\ isAvailable(product) # Val(filters.inStock))
    /\ ((IsDefined(filters.tags) /\ Len(Val(filters.tags)) > 0) =>
          \E i \in 1..Len(Val(filters.tags)) : Val(filters.tags)[i] \in SeqToSet(product.tags))

applyFilters(prods, filters) ==
    IF ~IsDefined(filters) THEN prods
    ELSE SelectSeq(prods, LAMBDA p : matchesFilters(p, Val(filters)))

\* the comparator of applySorting: comparison * multiplier
compareProducts(a, b, sorting) ==
    LET multiplier == IF sorting.direction = "desc" THEN -1 ELSE 1
        comparison ==
            CASE sorting.field = "price" -> getFinalPrice(a) - getFinalPrice(b)
              [] sorting.field = "rating" -> a.rating.average - b.rating.average
              [] sorting.field = "createdAt" -> a.createdAt - b.createdAt
              [] sorting.field = "title" -> localeCompare(a.title, b.title)
              [] sorting.field = "popularity" -> a.rating.count - b.rating.count
              [] OTHER -> 0
    IN  comparison * multiplier

RECURSIVE InsertBeforeTies(_, _, _)
\* puts e before the elements of the run it ties with
InsertBeforeTies(run, e, sorting) ==
    IF run = <<>> THEN <<e>>
    ELSE IF compareProducts(Head(run), e, sorting) < 0
         THEN <<Head(run)>> \o InsertBeforeTies(Tail(run), e, sorting)
         ELSE <<e>> \o run

RECURSIVE InsertStable(_, _, _)
\* puts e, which follows every element of the sorted run in the input, behind
\* the elements that do not compare greater than it
InsertStable(run, e, sorting) ==
    IF run = <<>> THEN <<e>>
    ELSE IF compareProducts(Head(run), e, sorting) <= 0
         THEN <<Head(run)>> \o InsertStable(Tail(run), e, sorting)
         ELSE <<e>> \o run

RECURSIVE StableSort(_, _, _)
\* Array.prototype.sort, which is stable, applied to a copy: StableSort(<<>>, s, _)
StableSort(run, rest, sorting) ==
    IF rest = <<>> THEN run
    ELSE StableSort(InsertStable(run, Head(rest), sorting), Tail(rest), sorting)

applySorting(prods, sorting) ==
    IF ~IsDefined(sorting) THEN prods
    ELSE StableSort(<<>>, prods, Val(sorting))

\* the array handed to applySorting, once sorted in place
arraySortedInPlace(prods, sorting) == applySorting(prods, sorting)

\* the array handed to applySorting, after the call: sort works on the copy
\* [...products], so the array is as it was
arrayAfterSorting(prods, sorting) == prods

applyPagination(prods, pagination) ==
    IF ~IsDefined(pagination) THEN prods
    ELSE LET offset == Val(pagination).offset
             limit == Val(pagination).limit
         IN  Slice(prods, offset, offset + limit)

\* mutant of hasNextPage: the last product is not counted
hasNextPageShort(totalCount, pagination) ==
    IF ~IsDefined(pagination) THEN FALSE
    ELSE Val(pagination).offset + Val(pagination).limit < totalCount - 1

hasNextPage(totalCount, pagination) ==
    IF ~IsDefined(pagination) THEN FALSE
    ELSE Val(pagination).offset + Val(pagination).limit < totalCount

\* `x || d` on a number
OrIfZero(x, d) == IF x = 0 THEN d ELSE x

\* the body of findMany after ensureDataLoaded has resolved
findManyLoaded(specification) ==
    LET filteredProducts == applySorting(applyFilters(products, specification.filters),
                                         specification.sorting)
        totalCount == Len(filteredProducts)
        paginatedProducts == applyPagination(filteredProducts, specification.pagination)
        offset == IF IsDefined(specification.pagination)
                  THEN Val(specification.pagination).offset ELSE 0
        limit == IF IsDefined(specification.pagination)
                 THEN OrIfZero(Val(specification.pagination).limit, totalCount)
                 ELSE totalCount
    IN  [success |-> TRUE,
         items |-> paginatedProducts,
         pagination |-> [total |-> totalCount,
                         offset |-> offset,
                         limit |-> limit,
                         hasNext |-> hasNextPage(totalCount, specification.pagination),
                         hasPrevious |-> offset > 0],
         error |-> "none"]

\* ensureDataLoaded started for every call made before the data is loaded
ensureDataLoadedUnshared(loaded, promise) ==
    IF loaded THEN "return" ELSE "load"

\* ensureDataLoaded forgetting a load that was rejected
ensureDataLoadedRetrying(loaded, promise) ==
    IF loaded THEN "return"
    ELSE IF promise \notin {"null", "rejected"} THEN "await"
    ELSE "load"

\* ensureDataLoaded: what a call does about the data: go on, wait for the
\* load in progress, or start the load
ensureDataLoaded(loaded, promise) ==
    IF loaded THEN "return"
    ELSE IF promise # "null" THEN "await"
    ELSE "load"

\* searchTerm.toLowerCase().trim() on the search terms of the callers
toLowerCaseTrim(term) ==
    CASE term = " Electronics " -> "electronics"
      [] term = "   " -> ""
      [] OTHER -> term

\* the words of the searchable text of a product (description,
\* shortDescription and specifications are empty in the dataset)
searchableText(p) == {p.title, p.category, p.subcategory} \cup SeqToSet(p.tags)

\* performTextSearch for terms that are whole words of the dataset or occur
\* nowhere in it
performTextSearch(prods, searchTerm) ==
    LET term == toLowerCaseTrim(searchTerm)
    IN  IF term = "" THEN prods
        ELSE SelectSeq(prods, LAMBDA p : term \in searchableText(p))

\* the body of a paginated operation from the filtered products on
paginatedResult(filteredProducts, specification) ==
    LET totalCount == Len(filteredProducts)
        offset == IF IsDefined(specification.pagination)
                  THEN Val(specification.pagination).offset ELSE 0
        limit == IF IsDefined(specification.pagination)
                 THEN OrIfZero(Val(specification.pagination).limit, totalCount)
                 ELSE totalCount
    IN  [success |-> TRUE,
         items |-> applyPagination(filteredProducts, specification.pagination),
         pagination |-> [total |-> totalCount,
                         offset |-> offset,
                         limit |-> limit,
                         hasNext |-> hasNextPage(totalCount, specification.pagination),
                         hasPrevious |-> offset > 0],
         error |-> "none"]

\* the body of search after ensureDataLoaded has resolved
searchLoaded(searchTerm, specification) ==
    paginatedResult(
        applySorting(applyFilters(performTextSearch(products, searchTerm),
                                  specification.filters),
                     specification.sorting),
        specification)

\* findById with a product that is not there treated as a failure
findByIdOrFail(productId) ==
    LET found == SelectSeq(products, LAMBDA p : p.id = productId)
    IN  IF found = <<>>
        THEN [success |-> FALSE, data |-> Undefined, error |-> "PERSISTENCE_ERROR"]
        ELSE [success |-> TRUE, data |-> Some(Head(found)), error |-> "none"]

\* the body of findById after ensureDataLoaded has resolved: the product or null
findByIdLoaded(productId) ==
    LET found == SelectSeq(products, LAMBDA p : p.id = productId)
    IN  [success |-> TRUE, data |-> IF found = <<>> THEN Undefined ELSE Some(Head(found)),
         error |-> "none"]

\* Math.abs(a - b) / b < 0.5 in floating point: Infinity or NaN for b = 0
similarPrice(a, b) ==
    IF b = 0 THEN FALSE
    ELSE IF b > 0 THEN 2 * Abs(a - b) < b
    ELSE TRUE

findSimilarProductsLogic(baseProduct) ==
    Slice(SelectSeq(SelectSeq(products, LAMBDA p : p.id # baseProduct.id),
                    LAMBDA p : \/ p.category = baseProduct.category
                               \/ similarPrice(getFinalPrice(p), getFinalPrice(baseProduct))
                               \/ p.sellerId = baseProduct.sellerId),
          0, SimilarProductsTop)

\* the body of findSimilarProducts after ensureDataLoaded has resolved
findSimilarProductsLoaded(productId, specification) ==
    LET found == SelectSeq(products, LAMBDA p : p.id = productId)
    IN  IF found = <<>>
        THEN [success |-> FALSE, items |-> <<>>,
              pagination |-> [total |-> 0, offset |-> 0, limit |-> 0,
                              hasNext |-> FALSE, hasPrevious |-> FALSE],
              error |-> "NOT_FOUND"]
        ELSE paginatedResult(applySorting(findSimilarProductsLogic(Head(found)),
                                          specification.sorting),
                             specification)

\* the body of healthCheck after ensureDataLoaded has resolved
healthCheckLoaded ==
    [success |-> TRUE, data |-> [isConnected |-> isLoaded, itemCount |-> Len(products)],
     error |-> "none"]

\* handleError: the failure result of a repository operation
handleError(code) ==
    [success |-> FALSE,
     items |-> <<>>,
     pagination |-> [total |-> 0, offset |-> 0, limit |-> 0,
                     hasNext |-> FALSE, hasPrevious |-> FALSE],
     error |-> code]

(***************************************************************************)
(* Numbers: a quotient of integers is kept as a reduced fraction           *)
(***************************************************************************)
RECURSIVE GCD(_, _)
GCD(a, b) == IF b = 0 THEN a ELSE GCD(b, a % b)

\* n / d for d > 0
Quotient(n, d) ==
    LET g == GCD(Abs(n), d)
    IN  IF g = 0 THEN [num |-> 0, den |-> 1] ELSE [num |-> n \div g, den |-> d \div g]

RECURSIVE InsertNumber(_, _)
InsertNumber(run, x) ==
    IF run = <<>> THEN <<x>>
    ELSE IF Head(run) <= x THEN <<Head(run)>> \o InsertNumber(Tail(run), x)
         ELSE <<x>> \o run

RECURSIVE SortNumbers(_, _)
\* prices.sort((a, b) => a - b): SortNumbers(<<>>, prices)
SortNumbers(run, rest) ==
    IF rest = <<>> THEN run
    ELSE SortNumbers(InsertNumber(run, Head(rest)), Tail(rest))

\* Map.set(key, (Map.get(key) || 0) + 1) on a Map kept as the sequence of its
\* entries in insertion order
Increment(entries, key) ==
    IF \E i \in 1..Len(entries) : entries[i].key = key
    THEN [i \in 1..Len(entries) |->
            IF entries[i].key = key
            THEN [key |-> key, count |-> entries[i].count + 1]
            ELSE entries[i]]
    ELSE Append(entries, [key |-> key, count |-> 1])

RECURSIVE IncrementAll(_, _)
IncrementAll(entries, keys) ==
    IF keys = <<>> THEN entries
    ELSE IncrementAll(Increment(entries, Head(keys)), Tail(keys))

RECURSIVE InsertByCount(_, _)
InsertByCount(run, e) ==
    IF run = <<>> THEN <<e>>
    ELSE IF Head(run).count >= e.count THEN <<Head(run)>> \o InsertByCount(Tail(run), e)
         ELSE <<e>> \o run

RECURSIVE SortByCountDesc(_, _)
\* entries.sort(([, a], [, b]) => b - a): SortByCountDesc(<<>>, entries)
SortByCountDesc(run, rest) ==
    IF rest = <<>> THEN run
    ELSE SortByCountDesc(InsertByCount(run, Head(rest)), Tail(rest))

RECURSIVE SumCounts(_)
SumCounts(values) ==
    IF values = <<>> THEN 0 ELSE Head(values).count + SumCounts(Tail(values))

Percentiles == {25, 50, 75, 90, 95}

(***************************************************************************)
(* ListProductsUseCase, first definition (lines 59-632)                    *)
(***************************************************************************)
Failure(code) == [success |-> FALSE, data |-> Undefined, error |-> code]
Success(data) == [success |-> TRUE, data |-> Some(data), error |-> "none"]

validateAndSanitizeInput(q) ==
    LET page == Max(1, IF IsDefined(q.pagination) THEN OrElse(Val(q.pagination).page, 1) ELSE 1)
        limit == Min(Max(1, IF IsDefined(q.pagination) THEN Val(q.pagination).limit
                                                       ELSE defaultPageSize),
                     maxResultsPerPage)
        pagination == [page |-> Some(page), limit |-> limit, offset |-> (page - 1) * limit]
        filters == q.filters
        sorting == OrElse(q.sorting, [field |-> "relevance", direction |-> "desc"])
    IN  IF /\ IsDefined(filters.minPrice) /\ IsDefined(filters.maxPrice)
           /\ Val(filters.minPrice) > Val(filters.maxPrice)
        THEN Failure("INVALID_INPUT")
        ELSE IF /\ IsDefined(filters.rating)
                /\ (Val(filters.rating).min < 0 \/ Val(filters.rating).min > 5)
        THEN Failure("INVALID_INPUT")
        ELSE Success([filters |-> filters,
                      sorting |-> sorting,
                      pagination |-> pagination,
                      includeFacets |-> OrElse(q.includeFacets, FALSE)])

transformToRepositoryFilters(filters) ==
    Some([filters EXCEPT !.isActive = IF IsDefined(filters.isActive)
                                      THEN filters.isActive ELSE Some(TRUE)])

transformToRepositorySorting(sorting) ==
    LET repositoryField == IF sorting.field = "relevance" THEN "createdAt" ELSE sorting.field
    IN  Some([field |-> repositoryField, direction |-> sorting.direction])

transformToRepositoryPagination(pagination) ==
    Some([offset |-> pagination.offset, limit |-> pagination.limit])

\* TRUE iff transformProductToSummary returns rather than throws
transformProductToSummaryReturns(product) ==
    product.primaryImages >= 1 /\ getFormattedPriceReturns(product)

transformProductToSummary(product) ==
    [id |-> product.id,
     price |-> [originalPrice |-> product.price, finalPrice |-> getFinalPrice(product)],
     sellerId |-> product.sellerId,
     rating |-> product.rating,
     category |-> product.category,
     subcategory |-> product.subcategory,
     isAvailable |-> isAvailable(product),
     tags |-> product.tags,
     createdAt |-> product.createdAt]

RECURSIVE buildAggregationState(_, _)
\* the loop of buildAggregationState over the products left, from the state so far
buildAggregationState(state, prods) ==
    IF prods = <<>> THEN state
    ELSE LET product == Head(prods)
             finalPrice == getFinalPrice(product)
             av == state.availabilityMetrics
             next ==
               [categoryDistribution |->
                    Increment(state.categoryDistribution,
                              <<product.category, product.subcategory>>),
                sellerDistribution |->
                    Increment(state.sellerDistribution, product.sellerName),
                priceStatistics |->
                    [min |-> Min(state.priceStatistics.min, finalPrice),
                     max |-> Max(state.priceStatistics.max, finalPrice),
                     sum |-> state.priceStatistics.sum + finalPrice,
                     count |-> state.priceStatistics.count + 1],
                availabilityMetrics |->
                    [inStock |-> av.inStock +
                        (IF isAvailable(product)
                            /\ ~(product.stock.available <= product.stock.threshold)
                         THEN 1 ELSE 0),
                     lowStock |-> av.lowStock +
                        (IF isAvailable(product)
                            /\ product.stock.available <= product.stock.threshold
                         THEN 1 ELSE 0),
                     outOfStock |-> av.outOfStock + (IF isAvailable(product) THEN 0 ELSE 1),
                     withDiscount |-> av.withDiscount +
                        (IF IsDefined(product.discount) THEN 1 ELSE 0)],
                tagFrequency |-> IncrementAll(state.tagFrequency, product.tags)]
         IN  buildAggregationState(next, Tail(prods))

EmptyAggregationState ==
    [categoryDistribution |-> <<>>,
     sellerDistribution |-> <<>>,
     priceStatistics |-> [min |-> Infinity, max |-> 0, sum |-> 0, count |-> 0],
     availabilityMetrics |-> [inStock |-> 0, outOfStock |-> 0, lowStock |-> 0,
                              withDiscount |-> 0],
     tagFrequency |-> <<>>]

PriceRanges == <<"0-100", "100-500", "500-1000", "1000-5000", "5000-Infinity">>

generatePriceRangeFacets(priceStats) ==
    [i \in 1..Len(PriceRanges) |->
        [value |-> <<PriceRanges[i]>>, count |-> 0, selected |-> FALSE]]

generateFacets(state, appliedFilters) ==
    (IF Len(state.categoryDistribution) > 0
     THEN <<[key |-> "category",
             values |->
               LET top == Slice(SortByCountDesc(<<>>, state.categoryDistribution),
                                0, FacetCategoryTop)
               IN  [i \in 1..Len(top) |->
                      [value |-> top[i].key,
                       count |-> top[i].count,
                       selected |-> appliedFilters.category = Some(top[i].key[1])]]]>>
     ELSE <<>>)
    \o <<[key |-> "priceRange",
          values |-> generatePriceRangeFacets(state.priceStatistics)]>>
    \o (IF Len(state.sellerDistribution) > 0
        THEN <<[key |-> "seller",
                values |->
                  LET top == Slice(SortByCountDesc(<<>>, state.sellerDistribution),
                                   0, FacetSellerTop)
                  IN  [i \in 1..Len(top) |->
                         [value |-> <<top[i].key>>,
                          count |-> top[i].count,
                          selected |-> FALSE]]]>>
        ELSE <<>>)

calculateAveragePrice(priceStats) ==
    IF priceStats.count > 0 THEN Quotient(priceStats.sum, priceStats.count)
    ELSE Quotient(0, 1)

FinalPrices(prods) == [i \in 1..Len(prods) |-> getFinalPrice(prods[i])]

calculateMedianPrice(prods) ==
    LET prices == SortNumbers(<<>>, FinalPrices(prods))
        mid == Len(prices) \div 2
    IN  IF Len(prices) = 0 THEN Quotient(0, 1)
        ELSE IF Len(prices) % 2 = 0
             THEN Quotient(prices[mid] + prices[mid + 1], 2)   \* 0-based mid - 1 and mid
             ELSE Quotient(prices[mid + 1], 1)

calculatePricePercentiles(prods) ==
    LET prices == SortNumbers(<<>>, FinalPrices(prods))
    IN  [p \in Percentiles |->
            \* Math.ceil((p / 100) * prices.length) - 1
            LET index == ((p * Len(prices) + 99) \div 100) - 1
                at == Max(0, index)
            IN  IF at + 1 \in 1..Len(prices) THEN prices[at + 1] ELSE 0]

getPopularTags(tagFrequency) ==
    Slice(SortByCountDesc(<<>>, tagFrequency), 0, PopularTagsTop)

\* TRUE iff transformToEnhancedResponse returns rather than throws
transformToEnhancedResponseReturns(repositoryData) ==
    \A i \in 1..Len(repositoryData.items) :
        transformProductToSummaryReturns(repositoryData.items[i])

Aggregates(aggregationState, prods) ==
    [categoryDistribution |-> aggregationState.categoryDistribution,
     sellerDistribution |-> aggregationState.sellerDistribution,
     priceStatistics |->
        [min |-> aggregationState.priceStatistics.min,
         max |-> aggregationState.priceStatistics.max,
         average |-> calculateAveragePrice(aggregationState.priceStatistics),
         median |-> calculateMedianPrice(prods)],
     availabilityMetrics |-> aggregationState.availabilityMetrics]

SearchMetadata(total, filters, aggregationState, percentiles, prods) ==
    [totalResults |-> total,
     appliedFilters |-> filters,
     averagePrice |-> calculateAveragePrice(aggregationState.priceStatistics),
     priceDistribution |->
        [min |-> aggregationState.priceStatistics.min,
         max |-> aggregationState.priceStatistics.max,
         median |-> calculateMedianPrice(prods),
         percentiles |-> percentiles],
     popularTags |-> getPopularTags(aggregationState.tagFrequency)]

transformToEnhancedResponse(repositoryData, q) ==
    LET items == [i \in 1..Len(repositoryData.items) |->
                     transformProductToSummary(repositoryData.items[i])]
        aggregationState == buildAggregationState(EmptyAggregationState, repositoryData.items)
        limit == q.pagination.limit
        total == repositoryData.pagination.total
        pagination ==
            [total |-> total,
             page |-> OrElse(q.pagination.page, 1),
             limit |-> limit,
             offset |-> q.pagination.offset,
             totalPages |-> (total + limit - 1) \div limit,   \* Math.ceil(total / limit)
             hasNext |-> repositoryData.pagination.hasNext,
             hasPrevious |-> repositoryData.pagination.hasPrevious,
             totalScanned |-> Len(repositoryData.items)]
        facets == IF q.includeFacets THEN generateFacets(aggregationState, q.filters)
                  ELSE <<>>
    IN  [items |-> items,
         pagination |-> pagination,
         facets |-> Some(facets),
         metadata |-> SearchMetadata(total, q.filters, aggregationState,
                                     calculatePricePercentiles(repositoryData.items),
                                     repositoryData.items),
         sorting |-> q.sorting,
         aggregations |-> Aggregates(aggregationState, repositoryData.items)]

(***************************************************************************)
(* ListProductsUseCase, second definition (lines 688-1261)                 *)
(***************************************************************************)
validateAndSanitizeInput2(q) ==
    LET sanitizedQuery ==
            [filters |-> q.filters,
             sorting |-> OrElse(q.sorting, [field |-> "createdAt", direction |-> "desc"]),
             pagination |-> OrElse(q.pagination,
                                   [page |-> Undefined, limit |-> 20, offset |-> 0]),
             includeFacets |-> OrElse(q.includeFacets, TRUE)]
        f == sanitizedQuery.filters
    IN  IF sanitizedQuery.pagination.limit < 1
           \/ sanitizedQuery.pagination.limit > 100
        THEN Failure("INVALID_INPUT")
        ELSE IF sanitizedQuery.pagination.offset < 0
        THEN Failure("INVALID_INPUT")
        ELSE IF IsDefined(f.minPrice) /\ Val(f.minPrice) < 0
        THEN Failure("INVALID_INPUT")
        ELSE IF /\ IsDefined(f.maxPrice) /\ IsDefined(f.minPrice)
                /\ Val(f.maxPrice) < Val(f.minPrice)
        THEN Failure("INVALID_INPUT")
        ELSE Success(sanitizedQuery)

transformToRepositoryFilters2(filters) ==
    IF \E k \in FilterFields : IsDefined(filters[k]) THEN Some(filters) ELSE Undefined

transformToRepositorySorting2(sorting) ==
    Some([field |-> sorting.field, direction |-> sorting.direction])

RECURSIVE buildAggregationState2(_, _)
\* the loop of the second buildAggregationState; the returned statistics are
\* those of FinishAggregationState2
buildAggregationState2(state, prods) ==
    IF prods = <<>> THEN state
    ELSE LET product == Head(prods)
             finalPrice == getFinalPrice(product)
             av == state.availabilityMetrics
             next ==
               [categoryDistribution |->
                    Increment(state.categoryDistribution, <<product.category>>),
                sellerDistribution |->
                    Increment(state.sellerDistribution, product.sellerId),
                priceStatistics |->
                    [min |-> Min(state.priceStatistics.min, finalPrice),
                     max |-> Max(state.priceStatistics.max, finalPrice),
                     sum |-> state.priceStatistics.sum + finalPrice,
                     count |-> state.priceStatistics.count + 1],
                availabilityMetrics |->
                    [inStock |-> av.inStock +
                        (IF isAvailable(product)
                            /\ ~(product.stock.available <= product.stock.threshold)
                         THEN 1 ELSE 0),
                     lowStock |-> av.lowStock +
                        (IF isAvailable(product)
                            /\ product.stock.available <= product.stock.threshold
                         THEN 1 ELSE 0),
                     outOfStock |-> av.outOfStock + (IF isAvailable(product) THEN 0 ELSE 1),
                     withDiscount |-> av.withDiscount +
                        (IF IsDefined(product.discount) THEN 1 ELSE 0)],
                tagFrequency |-> IncrementAll(state.tagFrequency, product.tags)]
         IN  buildAggregationState2(next, Tail(prods))

EmptyAggregationState2 ==
    [categoryDistribution |-> <<>>,
     sellerDistribution |-> <<>>,
     priceStatistics |-> [min |-> Infinity, max |-> -Infinity, sum |-> 0, count |-> 0],
     availabilityMetrics |-> [inStock |-> 0, outOfStock |-> 0, lowStock |-> 0,
                              withDiscount |-> 0],
     tagFrequency |-> <<>>]

\* the return statement of the second buildAggregationState
FinishAggregationState2(state) ==
    [state EXCEPT
        !.priceStatistics.min = IF @ = Infinity THEN 0 ELSE @,
        !.priceStatistics.max = IF @ = -Infinity THEN 0 ELSE @]

PriceRanges2 == <<"0-50", "50-100", "100-500", "500-1000", "1000-Infinity">>

generatePriceRangeFacets2(priceStats) ==
    IF priceStats.count = 0 THEN <<>>
    ELSE <<[key |-> "priceRange",
            values |-> [i \in 1..Len(PriceRanges2) |->
                           [value |-> <<PriceRanges2[i]>>, count |-> 0,
                            selected |-> FALSE]]]>>

generateFacets2(state, appliedFilters) ==
    (IF Len(state.categoryDistribution) > 0
     THEN <<[key |-> "category",
             values |->
               LET top == Slice(SortByCountDesc(<<>>, state.categoryDistribution),
                                0, FacetCategoryTop)
               IN  [i \in 1..Len(top) |->
                      [value |-> top[i].key,
                       count |-> top[i].count,
                       selected |-> appliedFilters.category = Some(top[i].key[1])]]]>>
     ELSE <<>>)
    \o generatePriceRangeFacets2(state.priceStatistics)

calculatePricePercentiles2(prods) ==
    LET prices == SortNumbers(<<>>, FinalPrices(prods))
    IN  [p \in (IF Len(prods) = 0 THEN {} ELSE Percentiles) |->
            \* Math.floor((p / 100) * (prices.length - 1))
            prices[((p * (Len(prices) - 1)) \div 100) + 1]]

transformToEnhancedResponse2(repositoryData, q) ==
    LET items == [i \in 1..Len(repositoryData.items) |->
                     transformProductToSummary(repositoryData.items[i])]
        aggregationState ==
            FinishAggregationState2(
                buildAggregationState2(EmptyAggregationState2, repositoryData.items))
        limit == q.pagination.limit
        total == repositoryData.pagination.total
        facets == IF q.includeFacets
                  THEN Some(generateFacets2(aggregationState, q.filters))
                  ELSE Undefined
        pagination ==
            [total |-> total,
             page |-> (q.pagination.offset \div limit) + 1,
             limit |-> limit,
             offset |-> q.pagination.offset,
             totalPages |-> (total + limit - 1) \div limit,
             hasNext |-> repositoryData.pagination.hasNext,
             hasPrevious |-> repositoryData.pagination.hasPrevious,
             totalScanned |-> Len(repositoryData.items)]
    IN  [items |-> items,
         pagination |-> pagination,
         facets |-> facets,
         metadata |-> SearchMetadata(total, q.filters, aggregationState,
                                     calculatePricePercentiles2(repositoryData.items),
                                     repositoryData.items),
         sorting |-> q.sorting,
         aggregations |-> Aggregates(aggregationState, repositoryData.items)]

(***************************************************************************)
(* The bound definition of the use case                                    *)
(***************************************************************************)
Validate(q) ==
    IF definition = 1 THEN validateAndSanitizeInput(q) ELSE validateAndSanitizeInput2(q)

RepositorySpecification(sq) ==
    [filters |-> IF definition = 1 THEN transformToRepositoryFilters(sq.filters)
                 ELSE transformToRepositoryFilters2(sq.filters),
     sorting |-> IF definition = 1 THEN transformToRepositorySorting(sq.sorting)
                 ELSE transformToRepositorySorting2(sq.sorting),
     pagination |-> transformToRepositoryPagination(sq.pagination)]

EnhancedResponse(repositoryData, sq) ==
    IF definition = 1 THEN transformToEnhancedResponse(repositoryData, sq)
    ELSE transformToEnhancedResponse2(repositoryData, sq)

handleRepositoryError == Failure("DATA_ACCESS_ERROR")

\* mutant of handleUnexpectedError: the catch clause rethrows
rethrowUnexpectedError == [result |-> Undefined, thrown |-> TRUE]

\* the catch clause of execute: what the caller gets when the try block threw
handleUnexpectedError == [result |-> Some(Failure("INTERNAL_ERROR")), thrown |-> FALSE]

(***************************************************************************)
(* Inputs                                                                  *)
(***************************************************************************)
FilterSpecs ==
    {NoFilters}
    \cup {[NoFilters EXCEPT !.category = Some("electronics")],
          [NoFilters EXCEPT !.subcategory = Some("decor")],
          [NoFilters EXCEPT !.sellerId = Some("s1")],
          [NoFilters EXCEPT !.condition = Some("new")]}
    \cup {[NoFilters EXCEPT !.minPrice = Some(m)] : m \in {0, 60}}
    \cup {[NoFilters EXCEPT !.maxPrice = Some(m)] : m \in {0, 80}}
    \cup {[NoFilters EXCEPT !.minPrice = Some(lo), !.maxPrice = Some(hi)] :
             lo \in {-10, 60}, hi \in {50, 80}}
    \cup {[NoFilters EXCEPT !.isActive = Some(b)] : b \in BOOLEAN}
    \cup {[NoFilters EXCEPT !.hasDiscount = Some(b)] : b \in BOOLEAN}
    \cup {[NoFilters EXCEPT !.inStock = Some(b)] : b \in BOOLEAN}
    \cup {[NoFilters EXCEPT !.tags = Some(t)] : t \in {<<>>, <<"t2">>}}
    \cup {[NoFilters EXCEPT !.rating = Some([min |-> r])] : r \in {-1, 5, 6}}

SortFields == {"price", "rating", "createdAt", "title", "popularity", "relevance"}

Sortings ==
    {Undefined} \cup {Some([field |-> f, direction |-> d]) : f \in SortFields, d \in {"asc", "desc"}}

Limits == (0..MaxLimit) \cup {maxResultsPerPage, maxResultsPerPage + 1}

\* pagination as the controller builds it, and with a free offset and no page
Paginations ==
    {Undefined}
    \cup {Some([page |-> Some(p), limit |-> l, offset |-> (p - 1) * l]) :
             p \in 0..MaxPage, l \in Limits}
    \cup {Some([page |-> Undefined, limit |-> l, offset |-> 1]) : l \in 1..MaxLimit}

SmallPaginations ==
    {Undefined}
    \cup {Some([page |-> Some(p), limit |-> l, offset |-> (p - 1) * l]) :
             p \in 1..MaxPage, l \in 1..MaxLimit}

\* list queries: every filter on a small page grid, and every pagination and
\* sorting without a filter
Queries ==
    {[filters |-> f, sorting |-> Undefined, pagination |-> p, includeFacets |-> i] :
        f \in FilterSpecs, p \in SmallPaginations, i \in {Some(TRUE)}}
    \cup
    {[filters |-> NoFilters, sorting |-> s, pagination |-> p, includeFacets |-> Undefined] :
        s \in {Undefined, Some([field |-> "relevance", direction |-> "desc"]),
               Some([field |-> "price", direction |-> "asc"])},
        p \in Paginations}

NoQuery ==
    [filters |-> NoFilters, sorting |-> Undefined, pagination |-> Undefined,
     includeFacets |-> Undefined]

PagerOff ==
    [status |-> "off", filters |-> NoFilters, sorting |-> Undefined, limit |-> 0,
     page |-> 0, acc |-> <<>>, at |-> 0]

PagerQuery ==
    [filters |-> pager.filters,
     sorting |-> pager.sorting,
     pagination |-> Some([page |-> Some(pager.page), limit |-> pager.limit,
                          offset |-> (pager.page - 1) * pager.limit]),
     includeFacets |-> Some(FALSE)]

(***************************************************************************)
(* Inputs of Product.create                                                *)
(***************************************************************************)
ProductPrices == {0, 50, 100}

ProductDiscounts ==
    {NoDiscount}
    \cup {Discount(pct, amt, Undefined) :
             pct \in {0, 20, 100, 101}, amt \in {0, 60}}
    \cup {Discount(20, 0, Some(t)) : t \in 0..MaxTime}
    \cup {Discount(0, 30, Some(t)) : t \in 0..MaxTime}

ProductStocks ==
    {[available |-> a, reserved |-> 0, threshold |-> t] :
        a \in 0..MaxStock, t \in 0..MaxThreshold}

\* the data handed to Product.create: the first record of the dataset with
\* its price and discount replaced, or with its stock and active flag replaced
ProductData ==
    {[ProductPool[1] EXCEPT !.price = price, !.discount = discount] :
        price \in ProductPrices, discount \in ProductDiscounts}
    \cup {[ProductPool[1] EXCEPT !.stock = stock, !.isActive = active] :
        stock \in ProductStocks, active \in BOOLEAN}

NoReads == [finalPrice |-> Undefined, isAvailable |-> Undefined, availability |-> Undefined]

InitEntity ==
    /\ entity = Undefined
    /\ reads = NoReads

(***************************************************************************)
(* PaymentMethod entity. Amounts handed in are whole currency units;       *)
(* amounts of options are cents; fees are hundredths of a percent; an      *)
(* interest rate is in tenths of a percent (25 is 2.5%).                   *)
(***************************************************************************)
supportsInstallments(pm) == pm.type \in {"credit_card"}

isCardPayment(pm) == pm.type = "credit_card" \/ pm.type = "debit_card"

validateFees(pm) ==
    LET f == pm.fees IN
    /\ ~(f.processingFee < 0 \/ f.platformFee < 0 \/ f.acquirerFee < 0 \/ f.fixedFee < 0)
    /\ ~(f.totalFeePercentage > MaxTotalFeePercentage * 100)
    /\ ~(Abs(f.processingFee + f.platformFee + f.acquirerFee - f.totalFeePercentage)
            > 1)         \* 0.01 percent

\* validateLimits without the rule on the monthly limit
validateLimitsDailyOnly(pm) ==
    LET l == pm.limits IN
    /\ ~(l.minimumAmount < 0 \/ l.maximumAmount < 0)
    /\ ~(l.minimumAmount > l.maximumAmount)
    /\ ~(TruthyNumber(l.dailyLimit) /\ Val(l.dailyLimit) < l.maximumAmount)

validateLimits(pm) ==
    LET l == pm.limits IN
    /\ ~(l.minimumAmount < 0 \/ l.maximumAmount < 0)
    /\ ~(l.minimumAmount > l.maximumAmount)
    /\ ~(TruthyNumber(l.dailyLimit) /\ Val(l.dailyLimit) < l.maximumAmount)
    /\ ~(TruthyNumber(l.monthlyLimit) /\ TruthyNumber(l.dailyLimit)
            /\ Val(l.monthlyLimit) < Val(l.dailyLimit))

validateInstallments(pm) ==
    pm.isInstallmentEnabled =>
        /\ ~(pm.maxInstallments < MinInstallments \/ pm.maxInstallments > MaxInstallments)
        /\ supportsInstallments(pm)

validateSecurity(pm) ==
    /\ pm.security.complianceLevel
         \in {"PCI_DSS_LEVEL_1", "PCI_DSS_LEVEL_2", "PCI_DSS_LEVEL_3"}
    /\ ~(isCardPayment(pm) /\ ~pm.security.tokenization)

validateProcessingTime(pm) ==
    LET t == pm.processingTime IN
    /\ ~(t.authorizationTime < 0 \/ t.settlementTime < 0 \/ t.refundTime < 0
            \/ t.chargebackWindow < 0)
    /\ ~(t.authorizationTime > MaxAuthorizationTime)

\* TRUE iff the PaymentMethod constructor does not throw
validatePaymentRules(pm) ==
    /\ validateFees(pm)
    /\ validateLimits(pm)
    /\ validateInstallments(pm)
    /\ validateSecurity(pm)
    /\ validateProcessingTime(pm)

\* Math.round(n / d) for n >= 0 and d > 0: halves go up
RoundDiv(n, d) == (n + d \div 2) \div d

\* getInstallmentInterestRate with the second band ending before 12
getInstallmentInterestRateEarly(pm, quantity) ==
    IF pm.type = "credit_card" /\ quantity <= InterestFreeQuantities THEN 0
    ELSE IF quantity < 12 THEN 25
    ELSE IF quantity <= 18 THEN 35
    ELSE 45

getInstallmentInterestRate(pm, quantity) ==
    IF pm.type = "credit_card" /\ quantity <= InterestFreeQuantities THEN 0
    ELSE IF quantity <= 12 THEN 25
    ELSE IF quantity <= 18 THEN 35
    ELSE 45

RECURSIVE PowerOfGrowth(_, _)
\* Math.pow(1 + rate, quantity) in units of 10^-5, rounded at every factor
PowerOfGrowth(monthlyRate, quantity) ==
    IF quantity = 0 THEN 100000
    ELSE RoundDiv(PowerOfGrowth(monthlyRate, quantity - 1) * (1000 + monthlyRate), 1000)

\* calculateInstallmentWithInterest per unit of amount, in units of 10^-5:
\* rate * factor / (factor - 1)
AnnuityCoefficient(quantity, monthlyRate) ==
    LET factor == PowerOfGrowth(monthlyRate, quantity)
    IN  RoundDiv(monthlyRate * factor * 100, factor - 100000)

\* the option of one pass of the loop, before the filter
InstallmentOption(pm, amount, quantity) ==
    LET interestRate == getInstallmentInterestRate(pm, quantity)
        isInterestFree == interestRate = 0
    IN  [quantity |-> quantity,
         amount |-> IF isInterestFree THEN RoundDiv(amount * 100, quantity)
                    ELSE RoundDiv(amount * AnnuityCoefficient(quantity, interestRate), 1000),
         totalAmount |-> IF isInterestFree THEN amount * 100
                         ELSE RoundDiv(amount * AnnuityCoefficient(quantity, interestRate)
                                         * quantity, 1000),
         interestRate |-> interestRate,
         isInterestFree |-> isInterestFree,
         recommendedByMerchant |-> (quantity <= InterestFreeQuantities /\ isInterestFree)]

\* the filter of the options with every option let through
keepsEveryInstallment(option) == TRUE

\* the filter of the options: option.amount >= 5
keepsInstallment(option) == option.amount >= MinimumInstallmentValue * 100

calculateInstallmentOptions(pm, amount) ==
    IF ~pm.isInstallmentEnabled \/ amount < pm.limits.minimumAmount THEN <<>>
    ELSE SelectSeq([i \in 1..(pm.maxInstallments - 1) |-> InstallmentOption(pm, amount, i + 1)],
                   keepsInstallment)

\* calculateTransactionFees refusing the maximum amount itself
calculateTransactionFeesBelowMaximum(pm, amount) ==
    IF amount < pm.limits.minimumAmount \/ amount >= pm.limits.maximumAmount
    THEN [thrown |-> "Amount is outside payment method limits"]
    ELSE LET totalFees == amount * pm.fees.totalFeePercentage + pm.fees.fixedFee * 10000
         IN  [thrown |-> "",
              processingFee |-> amount * pm.fees.processingFee,
              platformFee |-> amount * pm.fees.platformFee,
              acquirerFee |-> amount * pm.fees.acquirerFee,
              fixedFee |-> pm.fees.fixedFee * 10000,
              totalFees |-> totalFees,
              netAmount |-> amount * 10000 - totalFees]

\* the fee breakdown in units of 10^-4 (a fee is in hundredths of a percent),
\* or the Error thrown
calculateTransactionFees(pm, amount) ==
    IF amount < pm.limits.minimumAmount \/ amount > pm.limits.maximumAmount
    THEN [thrown |-> "Amount is outside payment method limits"]
    ELSE LET totalFees == amount * pm.fees.totalFeePercentage + pm.fees.fixedFee * 10000
         IN  [thrown |-> "",
              processingFee |-> amount * pm.fees.processingFee,
              platformFee |-> amount * pm.fees.platformFee,
              acquirerFee |-> amount * pm.fees.acquirerFee,
              fixedFee |-> pm.fees.fixedFee * 10000,
              totalFees |-> totalFees,
              netAmount |-> amount * 10000 - totalFees]

PaymentTemplate ==
    [type |-> "credit_card", isInstallmentEnabled |-> TRUE, maxInstallments |-> 12,
     fees |-> [processingFee |-> 200, platformFee |-> 100, acquirerFee |-> 50,
               totalFeePercentage |-> 350, fixedFee |-> 0],
     limits |-> [minimumAmount |-> 0, maximumAmount |-> 10000,
                 dailyLimit |-> Undefined, monthlyLimit |-> Undefined],
     security |-> [complianceLevel |-> "PCI_DSS_LEVEL_1", tokenization |-> TRUE],
     processingTime |-> [authorizationTime |-> 5, settlementTime |-> 1, refundTime |-> 7,
                         chargebackWindow |-> 90]]

\* data that differ in the limits and the fixed fee
PaymentLimitsData ==
    {[PaymentTemplate EXCEPT !.limits = [minimumAmount |-> minimumAmount,
                                         maximumAmount |-> maximumAmount,
                                         dailyLimit |-> dailyLimit,
                                         monthlyLimit |-> monthlyLimit],
                             !.fees.fixedFee = fixedFee] :
        minimumAmount \in {-1, 0, 50, 200},
        maximumAmount \in {100, 10000},
        dailyLimit \in {Undefined, Some(0), Some(50), Some(100), Some(20000)},
        monthlyLimit \in {Undefined, Some(0), Some(50), Some(30000)},
        fixedFee \in {0, 2}}

\* data that differ in the fees: the components, and the total they are to add up to
PaymentFeesData ==
    {[PaymentTemplate EXCEPT !.fees = [processingFee |-> processingFee,
                                       platformFee |-> 100,
                                       acquirerFee |-> 50,
                                       totalFeePercentage |-> totalFeePercentage,
                                       fixedFee |-> fixedFee]] :
        processingFee \in {-200, 200, 1350, 1450},
        totalFeePercentage \in {-50, 350, 352, 1500, 1600},
        fixedFee \in {-1, 0}}

\* the data handed to PaymentMethod.create
PaymentData ==
    {[PaymentTemplate EXCEPT !.type = type, !.isInstallmentEnabled = enabled,
                             !.maxInstallments = maxInstallments,
                             !.limits.minimumAmount = minimumAmount] :
        type \in {"credit_card", "debit_card", "pix"},
        enabled \in BOOLEAN,
        maxInstallments \in {1, 2, 6, 7, 12, 13, 18, 19, 24, 25},
        minimumAmount \in {0, 50}}
    \cup {[PaymentTemplate EXCEPT !.security.tokenization = FALSE],
          [PaymentTemplate EXCEPT !.fees.totalFeePercentage = 1600],
          [PaymentTemplate EXCEPT !.limits.dailyLimit = Some(500)],
          [PaymentTemplate EXCEPT !.processingTime.authorizationTime = 31],
          [PaymentTemplate EXCEPT !.security.complianceLevel = "NONE"],
          [PaymentTemplate EXCEPT !.type = "pix", !.isInstallmentEnabled = FALSE,
                                  !.security.tokenization = FALSE]}
    \cup PaymentLimitsData \cup PaymentFeesData

\* the amounts asked for, in currency units
Amounts == {0, 9, 10, 30, 49, 50, 100, 1000}

InitPayment ==
    /\ paymentMethod = Undefined
    /\ paymentInput = Undefined
    /\ installments = Undefined
    /\ transactionFees = Undefined

(***************************************************************************)
(* ProductController.listProducts: from the query string to the query of   *)
(* the use case. A parameter of the query string is a string or absent.    *)
(* The seller, location and shipping filters, which the repository never   *)
(* reads, are left out.                                                    *)
(***************************************************************************)
\* z.string().optional().transform(val => val === 'true'): the transform
\* runs on an absent parameter too
parseBoolean(val) == val = Some("true")

\* parseInt(val, 10) on the numerals of the requests
parseInt(val) == CHOOSE n \in 0..9 : <<"0", "1", "2", "3", "4", "5", "6", "7", "8", "9">>[n + 1] = val

\* val ? parseInt(val, 10) : fallback
parseIntOr(val, fallback) == IF TruthyString(val) THEN parseInt(Val(val)) ELSE fallback

ListProductsQuerySchema(reqQuery) ==
    [category |-> reqQuery.category,
     isActive |-> parseBoolean(reqQuery.isActive),
     hasDiscount |-> parseBoolean(reqQuery.hasDiscount),
     inStock |-> parseBoolean(reqQuery.inStock),
     sortBy |-> OrElse(reqQuery.sortBy, "relevance"),
     sortDirection |-> OrElse(reqQuery.sortDirection, "desc"),
     page |-> parseIntOr(reqQuery.page, 1),
     limit |-> parseIntOr(reqQuery.limit, defaultQueryLimit),
     includeFacets |-> parseBoolean(reqQuery.includeFacets)]

\* the useCaseQuery of listProducts; a boolean of params is never undefined
useCaseQuery(params) ==
    [filters |-> [NoFilters EXCEPT !.category = IF TruthyString(params.category)
                                                 THEN params.category ELSE Undefined,
                                   !.isActive = Some(params.isActive),
                                   !.hasDiscount = Some(params.hasDiscount),
                                   !.inStock = Some(params.inStock)],
     sorting |-> Some([field |-> params.sortBy, direction |-> params.sortDirection]),
     pagination |-> Some([page |-> Some(params.page), limit |-> params.limit,
                          offset |-> (params.page - 1) * params.limit]),
     includeFacets |-> Some(params.includeFacets \/ FALSE)]

NoParameters ==
    [category |-> Undefined, isActive |-> Undefined, hasDiscount |-> Undefined,
     inStock |-> Undefined, sortBy |-> Undefined, sortDirection |-> Undefined,
     page |-> Undefined, limit |-> Undefined, includeFacets |-> Undefined]

\* the query strings: every combination of the three flags, and the other
\* parameters one at a time
Requests ==
    {[NoParameters EXCEPT !.isActive = a, !.hasDiscount = d, !.inStock = s] :
        a \in {Undefined, Some("true"), Some("false")},
        d \in {Undefined, Some("true"), Some("false")},
        s \in {Undefined, Some("true"), Some("false")}}
    \cup {[NoParameters EXCEPT !.page = page, !.limit = limit] :
             page \in {Undefined, Some("1"), Some("2")},
             limit \in {Undefined, Some("1"), Some("2")}}
    \cup {[NoParameters EXCEPT !.category = Some("electronics")],
          [NoParameters EXCEPT !.sortBy = Some("price"), !.sortDirection = Some("asc")],
          [NoParameters EXCEPT !.includeFacets = Some("true")]}

InitController == request = Undefined

(***************************************************************************)
(* Seller entity. A rating average is in tenths; a percentage is a whole   *)
(* number; a Date is a reading of the clock. The strings of the identity   *)
(* are given by what the rules read of them.                               *)
(***************************************************************************)
validateIdentity(s) ==
    /\ ~(s.usernameTrimmedLength < 3)
    /\ ~(~s.emailIsValid)
    /\ ~(s.displayNameTrimmedLength < 2)

validateSellerRating(s) ==
    /\ ~(s.rating.average < 0 \/ s.rating.average > 50)
    /\ ~(s.rating.count < 0)
    /\ ~(Abs(s.rating.positivePercentage + s.rating.neutralPercentage
                + s.rating.negativePercentage - 100) * 100 > 1)

validateMetrics(s) ==
    /\ ~(s.metrics.totalSales < 0 \/ s.metrics.totalProducts < 0)
    /\ ~(s.metrics.averageResponseTime < 0)
    /\ ~(s.metrics.onTimeDeliveryRate < 0 \/ s.metrics.onTimeDeliveryRate > 100)
    /\ ~(s.metrics.customerSatisfactionRate < 0 \/ s.metrics.customerSatisfactionRate > 100)

validateShippingPolicy(s) ==
    /\ ~(s.shippingPolicy.freeShippingMinimum < 0)
    /\ ~(s.shippingPolicy.averageProcessingTime < 0)
    /\ ~(s.shippingPolicy.shippingMethods = 0)

validateCertifications(s, clock) ==
    \A i \in 1..Len(s.certifications) :
        LET cert == s.certifications[i] IN
        /\ ~(IsDefined(cert.validUntil) /\ Val(cert.validUntil) < clock)
        /\ ~(cert.issuedAt > clock)

\* the year of establishment is read on the clock of the model
validateBusinessInfo(s, clock) ==
    /\ s.businessInfo.businessType \in {"individual", "small_business", "corporation"}
    /\ ~(TruthyNumber(s.businessInfo.establishedYear)
            /\ Val(s.businessInfo.establishedYear) > clock)

\* TRUE iff the Seller constructor does not throw at the given reading of the clock
validateSellerRules(s, clock) ==
    /\ validateIdentity(s)
    /\ validateSellerRating(s)
    /\ validateMetrics(s)
    /\ validateShippingPolicy(s)
    /\ validateCertifications(s, clock)
    /\ validateBusinessInfo(s, clock)

getActiveCertifications(s, clock) ==
    SelectSeq(s.certifications,
              LAMBDA cert : ~IsDefined(cert.validUntil) \/ Val(cert.validUntil) > clock)

\* the score in fifteenths: 0.4 x (average / 5 x 100) + 0.4 x (sum of the
\* three rates / 3) + 0.2 x (25 x active certifications), at most 100
getReputationScore(s, clock) ==
    Min(100 * 15,
        12 * s.rating.average
        + 2 * (s.metrics.onTimeDeliveryRate + s.metrics.customerSatisfactionRate
                 + s.metrics.disputeResolutionRate)
        + 3 * (Len(getActiveCertifications(s, clock)) * CertificationPoints))

SellerTemplate ==
    [usernameTrimmedLength |-> 7, emailIsValid |-> TRUE, displayNameTrimmedLength |-> 8,
     rating |-> [average |-> 45, count |-> 10, positivePercentage |-> 90,
                 neutralPercentage |-> 5, negativePercentage |-> 5],
     metrics |-> [totalSales |-> 10, totalProducts |-> 3, averageResponseTime |-> 2,
                  onTimeDeliveryRate |-> 100, customerSatisfactionRate |-> 100,
                  disputeResolutionRate |-> 100],
     shippingPolicy |-> [freeShippingMinimum |-> 0, averageProcessingTime |-> 1,
                         shippingMethods |-> 1],
     certifications |-> <<>>,
     businessInfo |-> [businessType |-> "individual", establishedYear |-> Undefined]]

Certification(type, issuedAt, validUntil) ==
    [type |-> type, issuedAt |-> issuedAt, validUntil |-> validUntil]

\* lists of certifications: none, one with every issue and expiry around the
\* clock, and many that never expire
CertificationLists ==
    {<<>>}
    \cup {<<Certification("verified", issuedAt, validUntil)>> :
             issuedAt \in {0, MaxTime + 1},
             validUntil \in {Undefined} \cup {Some(t) : t \in 0..(MaxTime + 1)}}
    \cup {<<Certification("verified", 0, Undefined), Certification("premium", 0, Some(1))>>,
          <<Certification("verified", 0, Undefined), Certification("premium", 0, Undefined),
            Certification("top_seller", 0, Undefined),
            Certification("mercado_lider", 0, Undefined),
            Certification("verified", 0, Undefined)>>}

\* the data handed to Seller.create
SellerData ==
    {[SellerTemplate EXCEPT !.rating.average = average,
                            !.rating.positivePercentage = percentages[1],
                            !.rating.neutralPercentage = percentages[2],
                            !.rating.negativePercentage = percentages[3],
                            !.certifications = certifications] :
        average \in {-1, 0, 45, 50, 51},
        percentages \in {<<100, 0, 0>>, <<90, 5, 5>>, <<90, 5, 4>>, <<150, -50, 0>>},
        certifications \in CertificationLists}
    \cup
    {[SellerTemplate EXCEPT !.rating.average = average,
                            !.metrics.onTimeDeliveryRate = onTimeDeliveryRate,
                            !.metrics.customerSatisfactionRate = customerSatisfactionRate,
                            !.metrics.disputeResolutionRate = disputeResolutionRate] :
        average \in {0, 50},
        onTimeDeliveryRate \in {-1, 0, 100, 101},
        customerSatisfactionRate \in {-1, 0, 100, 101},
        disputeResolutionRate \in {-10, 0, 100, 150}}
    \cup {[SellerTemplate EXCEPT !.usernameTrimmedLength = 2],
          [SellerTemplate EXCEPT !.emailIsValid = FALSE],
          [SellerTemplate EXCEPT !.shippingPolicy.shippingMethods = 0],
          [SellerTemplate EXCEPT !.businessInfo.businessType = "cooperative"],
          [SellerTemplate EXCEPT !.businessInfo.establishedYear = Some(MaxTime + 1)]}

InitSeller ==
    /\ seller = Undefined
    /\ sellerInput = Undefined
    /\ reputation = Undefined

(***************************************************************************)
(* GetProductDetailsUseCase (both definitions) and the repository callers  *)
(***************************************************************************)
\* the product ids of the callers that match /^[A-Z0-9\-_]+$/
MatchesProductIdPattern(productId) == productId \in {"P1", "P2", "P3", "P4", "P9"}

\* validateInput: "ok" or the code of the failure; only the first definition
\* tests the pattern
validateInput(productId) ==
    IF productId = "" THEN "MISSING_REQUIRED_FIELD"
    ELSE IF productId = "  " THEN "INVALID_INPUT"
    ELSE IF definition = 1 /\ ~MatchesProductIdPattern(productId) THEN "INVALID_INPUT"
    ELSE "ok"

\* isProductVisible letting every product through
isProductVisibleAlways(p, includeInactive) == TRUE

isProductVisible(p, includeInactive) == p.isActive \/ includeInactive

\* TRUE iff transformToDto returns: transformPrice calls getFormattedPrice
transformToDtoReturns(p) == getFormattedPriceReturns(p)

UseCaseFailure(code) == [success |-> FALSE, error |-> code, data |-> Undefined]

\* GetProductDetailsUseCase.execute from the result of findById on
getProductDetails(includeInactive, repositoryResult) ==
    IF ~repositoryResult.success
    THEN UseCaseFailure(IF definition = 1 THEN "DATA_ACCESS_ERROR" ELSE "REPOSITORY_ERROR")
    ELSE IF ~IsDefined(repositoryResult.data) THEN UseCaseFailure("PRODUCT_NOT_FOUND")
    ELSE LET p == Val(repositoryResult.data) IN
         IF ~isProductVisible(p, includeInactive) THEN UseCaseFailure("PRODUCT_UNAVAILABLE")
         ELSE IF ~transformToDtoReturns(p) THEN UseCaseFailure("INTERNAL_ERROR")
         ELSE [success |-> TRUE, error |-> "none",
               data |-> Some([id |-> p.id, availability |-> calculateAvailability(p)])]

Callers == {"c1", "c2"}

NoSpecification == [filters |-> Undefined, sorting |-> Undefined, pagination |-> Undefined]

CallerSpecifications ==
    {NoSpecification,
     [NoSpecification EXCEPT !.sorting = Some([field |-> "price", direction |-> "desc"])],
     [filters |-> Some([NoFilters EXCEPT !.category = Some("electronics")]),
      sorting |-> Some([field |-> "title", direction |-> "asc"]),
      pagination |-> Some([offset |-> 0, limit |-> 1])]}

Invocation(op, productId, searchTerm, specification, includeInactive) ==
    [op |-> op, productId |-> productId, searchTerm |-> searchTerm,
     specification |-> specification, includeInactive |-> includeInactive]

Invocations ==
    {Invocation("findMany", "", "", sp, FALSE) : sp \in CallerSpecifications}
    \cup {Invocation("findById", id, "", NoSpecification, FALSE) : id \in {"P1", "P9"}}
    \cup {Invocation("search", "", t, sp, FALSE) :
             t \in {" Electronics ", "   ", "zzz"}, sp \in CallerSpecifications}
    \cup {Invocation("findSimilarProducts", id, "", NoSpecification, FALSE) :
             id \in {"P1", "P9"}}
    \cup {Invocation("healthCheck", "", "", NoSpecification, FALSE)}
    \cup {Invocation("getProductDetails", id, "", NoSpecification, i) :
             id \in {"P1", "P4", "P9", "p9", "", "  "}, i \in BOOLEAN}

NoInvocation == Invocation("none", "", "", NoSpecification, FALSE)

IdleOp == [pc |-> "idle", invocation |-> NoInvocation, waited |-> FALSE,
           saw |-> Undefined, result |-> Undefined]

\* a dataset whose second record breaks a business rule of Product
BrokenCatalog == <<ProductPool[1], [ProductPool[2] EXCEPT !.price = 0]>>

\* TRUE iff parseAndStoreData returns: the seller and the payment method of
\* the records are constructed first, then the products; a constructor that
\* throws ends it before this.products is assigned. The maps of sellers and
\* payment methods, which no operation here reads, are not kept.
parseAndStoreDataReturns(rawData, clock) ==
    /\ validateSellerRules(rawData.seller, clock)
    /\ validatePaymentRules(rawData.paymentMethod)
    /\ \A i \in 1..Len(rawData.products) : validateBusinessRules(rawData.products[i])

DataFile(readable, prods, rawSeller, rawPaymentMethod) ==
    [readable |-> readable,
     rawData |-> [products |-> prods, seller |-> rawSeller,
                  paymentMethod |-> rawPaymentMethod]]

\* the data file as fs.readFile finds it: every dataset with a sound seller
\* and payment method, and files that are unreadable or hold one bad record
DataFiles ==
    {DataFile(TRUE, prods, SellerTemplate, PaymentTemplate) :
        prods \in RawCatalogs \cup {BrokenCatalog}}
    \cup {DataFile(FALSE, <<>>, SellerTemplate, PaymentTemplate),
          DataFile(TRUE, <<ProductPool[1]>>,
                   [SellerTemplate EXCEPT !.rating.average = 51], PaymentTemplate),
          DataFile(TRUE, <<ProductPool[1]>>, SellerTemplate,
                   [PaymentTemplate EXCEPT !.fees.totalFeePercentage = 1600])}

\* the result of the repository operation of an invocation, data loaded
RepositoryBody(inv) ==
    CASE inv.op = "findMany" -> findManyLoaded(inv.specification)
      [] inv.op = "search" -> searchLoaded(inv.searchTerm, inv.specification)
      [] inv.op = "findSimilarProducts" ->
            findSimilarProductsLoaded(inv.productId, inv.specification)
      [] inv.op = "healthCheck" -> healthCheckLoaded
      [] OTHER -> findByIdLoaded(inv.productId)

\* what the caller gets, data loaded
LoadedResult(inv) ==
    IF inv.op = "getProductDetails"
    THEN getProductDetails(inv.includeInactive, RepositoryBody(inv))
    ELSE RepositoryBody(inv)

\* what the caller gets when the load was rejected: handleError in the
\* catch of the operation
RejectedResult(inv) ==
    IF inv.op = "getProductDetails"
    THEN getProductDetails(inv.includeInactive,
                           [success |-> FALSE, data |-> Undefined,
                            error |-> "PERSISTENCE_ERROR"])
    ELSE [success |-> FALSE, error |-> "PERSISTENCE_ERROR"]

\* TRUE iff the operation hands this.products itself to applySorting:
\* applyFilters and performTextSearch return their argument when there is
\* nothing to filter by
SortsCollectionItself(inv) ==
    /\ inv.op \in {"findMany", "search"}
    /\ ~IsDefined(inv.specification.filters)
    /\ inv.op = "search" => toLowerCaseTrim(inv.searchTerm) = ""

InitCallers ==
    /\ dataFile = Undefined
    /\ ops = [c \in Callers |-> IdleOp]
    /\ fileReads = 0

\* the arrays handed to applySorting: products of the dataset, each at most
\* once, in any order
ProductArrays ==
    {<<>>} \cup UNION {
        {a \in [1..n -> SeqToSet(ProductPool)] : \A i, j \in 1..n : a[i] = a[j] => i = j} :
            n \in 1..MaxCatalog}

\* the sort fields of ProductQuerySpecification and two names applySorting
\* has no case for
SorterFields == {"price", "rating", "createdAt", "title", "popularity", "relevance", "name"}

SorterSortings ==
    {Undefined} \cup {Some([field |-> f, direction |-> d]) :
                         f \in SorterFields, d \in {"asc", "desc"}}

InitSorter == sorter = Undefined

InitComponents == InitEntity /\ InitSorter /\ InitCallers /\ InitPayment /\ InitSeller /\ InitController

(***************************************************************************)
(* Actions                                                                 *)
(***************************************************************************)
Init ==
    /\ now = 0
    /\ definition \in {1, 2}
    /\ products = <<>>
    /\ isLoaded = FALSE
    /\ loadPromise = "null"
    /\ pc = "idle"
    /\ query = NoQuery
    /\ sanitized = Undefined
    /\ repoSpec = Undefined
    /\ repoCalls = 0
    /\ repoResult = Undefined
    /\ result = Undefined
    /\ thrown = FALSE
    /\ steps = <<>>
    /\ calledAt = 0
    /\ pager = PagerOff
    /\ InitComponents

\* time passes
Tick ==
    /\ now < MaxTime
    /\ now' = now + 1
    /\ UNCHANGED <<definition, products, isLoaded, loadPromise, pc, query, sanitized,
                   repoSpec, repoCalls, repoResult, result, thrown, steps, calledAt, pager>>
    /\ UNCHANGED componentVars

\* execute(q) up to its first suspension: validation, then the call of findMany
ExecuteBody(q) ==
    /\ pc = "idle"
    /\ query' = q
    /\ steps' = <<"validate">>
    /\ calledAt' = now
    /\ thrown' = FALSE
    /\ repoResult' = Undefined
    /\ LET validationResult == Validate(q) IN
       IF ~validationResult.success
       THEN /\ result' = Some(validationResult)
            /\ sanitized' = Undefined
            /\ repoSpec' = Undefined
            /\ repoCalls' = 0
            /\ pc' = "done"
       ELSE /\ result' = Undefined
            /\ sanitized' = validationResult.data
            /\ repoSpec' = Some(RepositorySpecification(Val(validationResult.data)))
            /\ repoCalls' = 1
            /\ pc' = "repository"
    /\ UNCHANGED <<now, definition, products, isLoaded, loadPromise, pager>>

\* execute(q) called directly with a query
Execute(q) ==
    /\ ExecuteBody(q)
    /\ UNCHANGED componentVars

ExecuteQuery ==
    /\ pager.status = "off"
    /\ \E q \in Queries : Execute(q)

\* ensureDataLoaded starting loadData: the file is read and parsed, once
\* ProductController.listProducts: the query string is parsed, turned into
\* the query of the use case, and execute is called with it
ListProducts ==
    /\ pager.status = "off"
    /\ \E reqQuery \in Requests :
          /\ request' = Some(reqQuery)
          /\ ExecuteBody(useCaseQuery(ListProductsQuerySchema(reqQuery)))
    /\ UNCHANGED <<entityVars, sorter, callerVars, paymentVars, sellerVars>>

LoadData ==
    /\ pc = "repository"
    /\ ~isLoaded
    /\ loadPromise = "null"
    /\ \E rawData \in RawCatalogs, readable \in BOOLEAN :
          IF readable /\ \A i \in 1..Len(rawData) : validateBusinessRules(rawData[i])
          THEN /\ products' = rawData
               /\ isLoaded' = TRUE
               /\ loadPromise' = "fulfilled"
          ELSE /\ loadPromise' = "rejected"
               /\ UNCHANGED <<products, isLoaded>>
    /\ UNCHANGED <<now, definition, pc, query, sanitized, repoSpec, repoCalls,
                   repoResult, result, thrown, steps, calledAt, pager>>
    /\ UNCHANGED componentVars

\* findMany once ensureDataLoaded has settled
FindMany ==
    /\ pc = "repository"
    /\ isLoaded \/ loadPromise = "rejected"
    /\ IF isLoaded
       THEN /\ repoResult' = Some(findManyLoaded(Val(repoSpec)))
            /\ steps' = steps \o <<"filter", "sort", "paginate">>
       ELSE /\ repoResult' = Some(handleError("PERSISTENCE_ERROR"))
            /\ steps' = steps
    /\ pc' = "assemble"
    /\ UNCHANGED <<now, definition, products, isLoaded, loadPromise, query, sanitized,
                   repoSpec, repoCalls, result, thrown, calledAt, pager>>
    /\ UNCHANGED componentVars

\* execute after findMany has resolved: error mapping or response assembly
Respond ==
    /\ pc = "assemble"
    /\ LET repositoryResult == Val(repoResult) IN
       IF ~repositoryResult.success
       THEN /\ result' = Some(handleRepositoryError)
            /\ thrown' = FALSE
            /\ steps' = steps
       ELSE IF transformToEnhancedResponseReturns(repositoryResult)
       THEN /\ result' = Some(Success(EnhancedResponse(repositoryResult, Val(sanitized))))
            /\ thrown' = FALSE
            /\ steps' = steps \o <<"aggregate", "assemble">>
       ELSE /\ result' = handleUnexpectedError.result
            /\ thrown' = handleUnexpectedError.thrown
            /\ steps' = steps
    /\ pc' = "done"
    /\ UNCHANGED <<now, definition, products, isLoaded, loadPromise, query, sanitized,
                   repoSpec, repoCalls, repoResult, calledAt, pager>>
    /\ UNCHANGED componentVars

\* the caller takes the result; a walking pager appends the page and moves on
Return ==
    /\ pc = "done"
    /\ pc' = "idle"
    /\ pager' =
         IF pager.status # "walking" THEN pager
         ELSE IF thrown \/ ~Val(result).success THEN [pager EXCEPT !.status = "failed"]
         ELSE LET envelope == Val(Val(result).data) IN
              [pager EXCEPT
                 !.acc = @ \o [i \in 1..Len(envelope.items) |-> envelope.items[i].id],
                 !.page = @ + 1,
                 !.status = IF envelope.pagination.hasNext THEN "walking" ELSE "complete"]
    /\ query' = NoQuery
    /\ sanitized' = Undefined
    /\ repoSpec' = Undefined
    /\ repoCalls' = 0
    /\ repoResult' = Undefined
    /\ result' = Undefined
    /\ thrown' = FALSE
    /\ steps' = <<>>
    /\ UNCHANGED <<now, definition, products, isLoaded, loadPromise, calledAt>>
    /\ UNCHANGED componentVars

Next == Tick \/ ExecuteQuery \/ LoadData \/ FindMany \/ Respond \/ Return

Spec == Init /\ [][Next]_vars

NextController == Tick \/ ListProducts \/ LoadData \/ FindMany \/ Respond \/ Return

SpecController == Init /\ [][NextController]_vars

(***************************************************************************)
(* A client that requests page 1, 2, ... of one query until hasNext = false *)
(***************************************************************************)
StartWalk ==
    /\ pc = "idle"
    /\ pager.status = "off"
    /\ \E f \in FilterSpecs, s \in Sortings, l \in 1..MaxLimit :
          /\ f = NoFilters \/ s = Undefined
          /\ pager' = [status |-> "walking", filters |-> f, sorting |-> s, limit |-> l,
                       page |-> 1, acc |-> <<>>, at |-> now]
    /\ UNCHANGED <<now, definition, products, isLoaded, loadPromise, pc, query, sanitized,
                   repoSpec, repoCalls, repoResult, result, thrown, steps, calledAt>>
    /\ UNCHANGED componentVars

ExecutePage ==
    /\ pager.status = "walking"
    /\ Execute(PagerQuery)

EndWalk ==
    /\ pc = "idle"
    /\ pager.status \in {"complete", "failed"}
    /\ pager' = PagerOff
    /\ UNCHANGED <<now, definition, products, isLoaded, loadPromise, pc, query, sanitized,
                   repoSpec, repoCalls, repoResult, result, thrown, steps, calledAt>>
    /\ UNCHANGED componentVars

NextPaging ==
    Tick \/ StartWalk \/ ExecutePage \/ LoadData \/ FindMany \/ Respond \/ Return \/ EndWalk

SpecPaging == Init /\ [][NextPaging]_vars

(***************************************************************************)
(* One Product instance and the calls made on it                           *)
(***************************************************************************)
\* Product.create(productData): the constructor throws when a business rule
\* is violated and no instance exists then
Create ==
    /\ \E productData \in ProductData :
          entity' = IF validateBusinessRules(productData) THEN Some(productData)
                     ELSE Undefined
    /\ reads' = NoReads
    /\ UNCHANGED <<now, listVars, request, sorter, callerVars, paymentVars, sellerVars>>

GetFinalPrice ==
    /\ IsDefined(entity)
    /\ reads' = [reads EXCEPT !.finalPrice =
                    Some([value |-> getFinalPrice(Val(entity)), at |-> now])]
    /\ UNCHANGED <<now, listVars, request, entity, sorter, callerVars, paymentVars, sellerVars>>

IsAvailable ==
    /\ IsDefined(entity)
    /\ reads' = [reads EXCEPT !.isAvailable = Some(isAvailable(Val(entity)))]
    /\ UNCHANGED <<now, listVars, request, entity, sorter, callerVars, paymentVars, sellerVars>>

CalculateAvailability ==
    /\ IsDefined(entity)
    /\ reads' = [reads EXCEPT !.availability = Some(calculateAvailability(Val(entity)))]
    /\ UNCHANGED <<now, listVars, request, entity, sorter, callerVars, paymentVars, sellerVars>>

NextEntity == Tick \/ Create \/ GetFinalPrice \/ IsAvailable \/ CalculateAvailability

SpecEntity == Init /\ [][NextEntity]_vars

(***************************************************************************)
(* applySorting called on an array                                         *)
(***************************************************************************)
\* applySorting(products, sorting): Array.prototype.sort works in place, on
\* the copy [...products]; the array passed is left as it was
ApplySorting ==
    /\ sorter = Undefined
    /\ \E array \in ProductArrays, sorting \in SorterSortings :
          LET copy == array
          IN  sorter' = Some([array |-> array, sorting |-> sorting, after |-> arrayAfterSorting(array, sorting),
                              output |-> applySorting(copy, sorting), at |-> now])
    /\ UNCHANGED <<now, listVars, request, entityVars, callerVars, paymentVars, sellerVars>>

\* the caller is done with the result
DropSorted ==
    /\ IsDefined(sorter)
    /\ sorter' = Undefined
    /\ UNCHANGED <<now, listVars, request, entityVars, callerVars, paymentVars, sellerVars>>

NextSorter == Tick \/ ApplySorting \/ DropSorted

SpecSorter == Init /\ [][NextSorter]_vars

(***************************************************************************)
(* Callers of the repository, interleaved at their awaits                  *)
(***************************************************************************)
\* a caller starts an operation; it runs up to `await this.ensureDataLoaded()`
Call(c) ==
    /\ ops[c].pc = "idle"
    /\ \E inv \in Invocations :
          IF inv.op = "getProductDetails" /\ validateInput(inv.productId) # "ok"
          THEN /\ ops' = [ops EXCEPT ![c] =
                            [IdleOp EXCEPT !.pc = "done", !.invocation = inv,
                               !.result = Some(UseCaseFailure(validateInput(inv.productId)))]]
               /\ UNCHANGED <<loadPromise, fileReads>>
          ELSE LET step == ensureDataLoaded(isLoaded, loadPromise) IN
               /\ ops' = [ops EXCEPT ![c] =
                            [IdleOp EXCEPT !.pc = IF step = "return" THEN "ready"
                                                  ELSE "awaiting",
                                           !.invocation = inv,
                                           !.waited = (step # "return")]]
               /\ loadPromise' = IF step = "load" THEN "pending" ELSE loadPromise
               /\ fileReads' = IF step = "load" THEN fileReads + 1 ELSE fileReads
    /\ UNCHANGED <<now, definition, products, isLoaded, pc, query, sanitized, repoSpec,
                   repoCalls, repoResult, result, thrown, steps, calledAt, pager>>
    /\ UNCHANGED <<request, entityVars, sorter, dataFile, paymentVars, sellerVars>>

\* fs.readFile settles and loadData goes on: parseAndStoreData assigns the
\* products once every record is parsed, or throws
ReadFileSettles ==
    /\ loadPromise = "pending"
    /\ \E file \in DataFiles :
          /\ dataFile' = Some(file)
          /\ IF file.readable /\ parseAndStoreDataReturns(file.rawData, now)
             THEN /\ products' = file.rawData.products
                  /\ isLoaded' = TRUE
                  /\ loadPromise' = "fulfilled"
             ELSE /\ loadPromise' = "rejected"
                  /\ UNCHANGED <<products, isLoaded>>
    /\ UNCHANGED <<now, definition, pc, query, sanitized, repoSpec, repoCalls,
                   repoResult, result, thrown, steps, calledAt, pager>>
    /\ UNCHANGED <<request, entityVars, sorter, ops, fileReads, paymentVars, sellerVars>>

\* the operation of a caller goes on after its await and runs to its return
Resume(c) ==
    /\ \/ ops[c].pc = "ready"
       \/ ops[c].pc = "awaiting" /\ loadPromise \in {"fulfilled", "rejected"}
    /\ LET inv == ops[c].invocation IN
       IF ops[c].pc = "awaiting" /\ loadPromise = "rejected"
       THEN /\ ops' = [ops EXCEPT ![c].pc = "done",
                                  ![c].result = Some(RejectedResult(inv))]
            /\ UNCHANGED products
       ELSE /\ ops' = [ops EXCEPT ![c].pc = "done",
                                  ![c].saw = Some([isLoaded |-> isLoaded,
                                                   products |-> products]),
                                  ![c].result = Some(LoadedResult(inv))]
            /\ products' = IF SortsCollectionItself(inv)
                           THEN arrayAfterSorting(products, inv.specification.sorting)
                           ELSE products
    /\ UNCHANGED <<now, definition, isLoaded, loadPromise, pc, query, sanitized, repoSpec,
                   repoCalls, repoResult, result, thrown, steps, calledAt, pager>>
    /\ UNCHANGED <<request, entityVars, sorter, fileReads, dataFile, paymentVars, sellerVars>>

\* the caller takes the result
Complete(c) ==
    /\ ops[c].pc = "done"
    /\ ops' = [ops EXCEPT ![c] = IdleOp]
    /\ UNCHANGED <<now, listVars, request, entityVars, sorter, fileReads, dataFile,
                   paymentVars, sellerVars>>

CallOperation == \E c \in Callers : Call(c)
ResumeOperation == \E c \in Callers : Resume(c)
CompleteOperation == \E c \in Callers : Complete(c)

NextCallers == CallOperation \/ ReadFileSettles \/ ResumeOperation \/ CompleteOperation

SpecCallers == Init /\ [][NextCallers]_vars

(***************************************************************************)
(* One PaymentMethod instance and the calls made on it                     *)
(***************************************************************************)
\* PaymentMethod.create(paymentData): the constructor throws when a rule is
\* violated and no instance exists then
CreatePaymentMethod ==
    /\ paymentMethod = Undefined
    /\ \E paymentData \in PaymentData :
          /\ paymentInput' = Some(paymentData)
          /\ paymentMethod' = IF validatePaymentRules(paymentData) THEN Some(paymentData)
                              ELSE Undefined
    /\ installments' = Undefined
    /\ transactionFees' = Undefined
    /\ UNCHANGED <<now, listVars, request, entityVars, sorter, callerVars, sellerVars>>

CalculateInstallmentOptions ==
    /\ IsDefined(paymentMethod)
    /\ \E amount \in Amounts :
          installments' = Some([amount |-> amount,
                                options |-> calculateInstallmentOptions(Val(paymentMethod),
                                                                        amount)])
    /\ UNCHANGED <<now, listVars, request, entityVars, sorter, callerVars, sellerVars, paymentMethod,
                   paymentInput, transactionFees>>

CalculateTransactionFees ==
    /\ IsDefined(paymentMethod)
    /\ \E amount \in Amounts :
          transactionFees' = Some([amount |-> amount,
                                   fees |-> calculateTransactionFees(Val(paymentMethod),
                                                                     amount)])
    /\ UNCHANGED <<now, listVars, request, entityVars, sorter, callerVars, sellerVars, paymentMethod,
                   paymentInput, installments>>

\* the instance is let go of; another one can be constructed
DropPaymentMethod ==
    /\ IsDefined(paymentMethod)
    /\ paymentMethod' = Undefined
    /\ paymentInput' = Undefined
    /\ installments' = Undefined
    /\ transactionFees' = Undefined
    /\ UNCHANGED <<now, listVars, request, entityVars, sorter, callerVars, sellerVars>>

NextPayment ==
    \/ CreatePaymentMethod
    \/ CalculateInstallmentOptions
    \/ CalculateTransactionFees
    \/ DropPaymentMethod

SpecPayment == Init /\ [][NextPayment]_vars

(***************************************************************************)
(* One Seller instance and the calls made on it                            *)
(***************************************************************************)
\* Seller.create(sellerData): the constructor throws when a rule is violated
\* and no instance exists then
CreateSeller ==
    /\ seller = Undefined
    /\ \E sellerData \in SellerData :
          /\ sellerInput' = Some([data |-> sellerData, at |-> now])
          /\ seller' = IF validateSellerRules(sellerData, now) THEN Some(sellerData)
                       ELSE Undefined
    /\ reputation' = Undefined
    /\ UNCHANGED <<now, listVars, request, entityVars, sorter, callerVars, paymentVars>>

GetReputationScore ==
    /\ IsDefined(seller)
    /\ reputation' = Some([at |-> now, score |-> getReputationScore(Val(seller), now)])
    /\ UNCHANGED <<now, listVars, request, entityVars, sorter, callerVars, paymentVars, seller,
                   sellerInput>>

\* the instance is let go of; another one can be constructed
DropSeller ==
    /\ IsDefined(seller)
    /\ seller' = Undefined
    /\ sellerInput' = Undefined
    /\ reputation' = Undefined
    /\ UNCHANGED <<now, listVars, request, entityVars, sorter, callerVars, paymentVars>>

NextSeller == Tick \/ CreateSeller \/ GetReputationScore \/ DropSeller

SpecSeller == Init /\ [][NextSeller]_vars

(***************************************************************************)
(* Properties                                                              *)
(***************************************************************************)
Succeeded == pc = "done" /\ ~thrown /\ IsDefined(result) /\ Val(result).success

\* the call in progress has run within one clock instant, so that prices read
\* now are the prices the call has read
SameInstant == calledAt = now
Envelope == Val(Val(result).data)

\* the filtered and sorted set of the call in progress, before pagination
FilteredSet(specification) ==
    applySorting(applyFilters(products, specification.filters), specification.sorting)

\* the aggregation state the bound definition builds over a collection
AggregationStateOf(prods) ==
    IF definition = 1 THEN buildAggregationState(EmptyAggregationState, prods)
    ELSE FinishAggregationState2(buildAggregationState2(EmptyAggregationState2, prods))

PercentilesOf(prods) ==
    IF definition = 1 THEN calculatePricePercentiles(prods)
    ELSE calculatePricePercentiles2(prods)

\* C1: in every successful envelope the aggregates (distributions, price
\* statistics, average, median, percentiles, availability counts, popular tags)
\* are those of the whole filtered set, whatever page and limit were asked for.
C1_AggregatesOverFilteredSet ==
    (Succeeded /\ SameInstant) =>
        LET full == FilteredSet(Val(repoSpec))
            whole == AggregationStateOf(full)
            expected == Aggregates(whole, full)
            got == Envelope.aggregations
        IN  /\ got.priceStatistics = expected.priceStatistics
            /\ got.availabilityMetrics = expected.availabilityMetrics
            /\ SeqToSet(got.categoryDistribution) = SeqToSet(expected.categoryDistribution)
            /\ SeqToSet(got.sellerDistribution) = SeqToSet(expected.sellerDistribution)
            /\ Envelope.metadata.averagePrice = expected.priceStatistics.average
            /\ Envelope.metadata.priceDistribution.median = expected.priceStatistics.median
            /\ Envelope.metadata.priceDistribution.percentiles = PercentilesOf(full)
            /\ SeqToSet(Envelope.metadata.popularTags)
                 = SeqToSet(getPopularTags(whole.tagFrequency))

\* C2: when facets are requested, the counts of the values of every facet
\* sum to the total of the filtered set.
C2_FacetCountsSumToTotal ==
    (Succeeded /\ Val(sanitized).includeFacets /\ IsDefined(Envelope.facets)) =>
        \A i \in 1..Len(Val(Envelope.facets)) :
            SumCounts(Val(Envelope.facets)[i].values) = Envelope.pagination.total

IdsOf(prods) == [i \in 1..Len(prods) |-> prods[i].id]

\* C3: the pages of one query, taken at one instant from page 1 until
\* hasNext = false, concatenate to the filtered and sorted set: the same
\* products in the same order, each exactly once.
C3_PagesCoverFilteredSet ==
    (pager.status = "complete" /\ pager.at = now) =>
        LET specification == RepositorySpecification(Val(Validate(PagerQuery).data))
            full == FilteredSet(specification)
        IN  /\ pager.acc = IdsOf(full)
            /\ Cardinality(SeqToSet(pager.acc)) = Len(pager.acc)
            /\ SeqToSet(pager.acc)
                 = {products[i].id : i \in {j \in 1..Len(products) :
                        ~IsDefined(specification.filters)
                        \/ matchesFilters(products[j], Val(specification.filters))}}

\* a walk of three pages of size 1 over a sorted query has completed
C3_Witness ==
    /\ pager.status = "complete"
    /\ pager.at = now
    /\ pager.limit = 1
    /\ Len(pager.acc) = 3
    /\ IsDefined(pager.sorting)

\* C4: the steps of every successful query are validate, then filter,
\* aggregate, sort, paginate, then assemble, in exactly this order.
C4_PhaseOrder ==
    Succeeded => steps = <<"validate", "filter", "aggregate", "sort", "paginate", "assemble">>

InvalidRange(q) ==
    \/ /\ IsDefined(q.filters.minPrice) /\ IsDefined(q.filters.maxPrice)
       /\ Val(q.filters.minPrice) > Val(q.filters.maxPrice)
    \/ /\ IsDefined(q.filters.rating)
       /\ (Val(q.filters.rating).min < 0 \/ Val(q.filters.rating).min > 5)

\* C5: a query with minPrice > maxPrice or rating.min outside [0,5] never
\* reaches the repository and ends in Failure(INVALID_INPUT) without envelope.
C5_InvalidRangeRejected ==
    (pc # "idle" /\ InvalidRange(query)) =>
        /\ pc = "done"
        /\ repoCalls = 0
        /\ result = Some(Failure("INVALID_INPUT"))

RequestedLimit(q) ==
    IF IsDefined(q.pagination) THEN Val(q.pagination).limit ELSE defaultPageSize

\* C6: a query that reaches the repository has page >= 1, limit within
\* [1,100] and offset = (page-1)*limit (page 1 and limit 20 when absent), and a
\* requested limit above 100 is truncated to 100 rather than rejected.
C6_PaginationNormalized ==
    /\ pc \in {"repository", "assemble"} =>
          LET page == OrElse(Val(sanitized).pagination.page, 1)
              p == Val(Val(repoSpec).pagination)
          IN  /\ page >= 1
              /\ p.limit >= 1 /\ p.limit <= 100
              /\ p.offset = (page - 1) * p.limit
              /\ ~IsDefined(query.pagination) => (page = 1 /\ p.limit = 20)
    /\ (pc # "idle" /\ RequestedLimit(query) > 100 /\ ~InvalidRange(query)) =>
          /\ repoCalls = 1
          /\ Val(Val(repoSpec).pagination).limit = 100

\* C7: a query with limit = 0 is executed with the effective limit 20 or is
\* rejected as invalid input, never executed with another limit.
C7_LimitZero ==
    (pc # "idle" /\ IsDefined(query.pagination) /\ Val(query.pagination).limit = 0) =>
        \/ pc = "done" /\ repoCalls = 0 /\ result = Some(Failure("INVALID_INPUT"))
        \/ repoCalls = 1 /\ Val(Val(repoSpec).pagination).limit = 20

\* C8: execute never rejects: a call in progress is never stuck (the load it
\* waits for has settled or can start, the repository result it maps is there),
\* and a finished call holds exactly one of Success(envelope) and
\* Failure(error), a Failure carrying no data.
C8_OneTerminalState ==
    /\ ~thrown
    /\ pc = "repository" => (isLoaded \/ loadPromise \in {"null", "rejected"})
    /\ pc = "assemble" => IsDefined(repoResult)
    /\ pc \in {"idle", "repository", "assemble"} => result = Undefined
    /\ pc = "done" =>
          /\ IsDefined(result)
          /\ \/ Val(result).success /\ IsDefined(Val(result).data)
                /\ Val(result).error = "none"
             \/ ~Val(result).success /\ Val(result).data = Undefined
                /\ Val(result).error \in {"INVALID_INPUT", "DATA_ACCESS_ERROR",
                                          "INTERNAL_ERROR"}

\* an entity method threw during assembly and the call ended in Failure
C8_Witness ==
    /\ pc = "done"
    /\ result = Some(Failure("INTERNAL_ERROR"))
    /\ Len(Val(repoResult).items) > 0

\* C9: no filter of an accepted query is dropped; for rating.min, every
\* returned product has a rating average of at least rating.min.
C9_RatingFilterApplied ==
    (Succeeded /\ IsDefined(query.filters.rating)) =>
        \A i \in 1..Len(Envelope.items) :
            Envelope.items[i].rating.average >= Val(query.filters.rating).min

\* the predicate filter as specified: every specified field constrains
SpecifiedMatch(product, filters) ==
    /\ IsDefined(filters.category) => product.category = Val(filters.category)
    /\ IsDefined(filters.subcategory) => product.subcategory = Val(filters.subcategory)
    /\ IsDefined(filters.sellerId) => product.sellerId = Val(filters.sellerId)
    /\ IsDefined(filters.minPrice) => getFinalPrice(product) >= Val(filters.minPrice)
    /\ IsDefined(filters.maxPrice) => getFinalPrice(product) <= Val(filters.maxPrice)
    /\ IsDefined(filters.condition) => product.condition = Val(filters.condition)
    /\ IsDefined(filters.isActive) => product.isActive = Val(filters.isActive)
    /\ IsDefined(filters.hasDiscount) =>
          (IsDefined(product.discount) /\ getSavingsAmount(product) > 0)
              = Val(filters.hasDiscount)
    /\ IsDefined(filters.inStock) => isAvailable(product) = Val(filters.inStock)
    /\ (IsDefined(filters.tags) /\ Val(filters.tags) # <<>>) =>
          SeqToSet(Val(filters.tags)) \cap SeqToSet(product.tags) # {}

\* C10: the repository returns a product iff it satisfies the conjunction of
\* the specified predicates, a price bound of 0 included.
C10_FilterIsConjunction ==
    (pc = "assemble" /\ SameInstant /\ Val(repoResult).success
        /\ IsDefined(Val(repoSpec).filters)) =>
        LET filters == Val(Val(repoSpec).filters)
            matching == {i \in 1..Len(products) : SpecifiedMatch(products[i], filters)}
        IN  /\ Val(repoResult).pagination.total = Cardinality(matching)
            /\ \A i \in 1..Len(Val(repoResult).items) :
                   SpecifiedMatch(Val(repoResult).items[i], filters)

\* the final price as specified at clock reading t: the list price without a
\* discount or with one that expired before t, else the price less the
\* percentage of it (when positive) or less the flat amount, not below 0
SpecifiedFinalPrice(p, t) ==
    IF ~IsDefined(p.discount) THEN p.price
    ELSE LET d == Val(p.discount) IN
         IF IsDefined(d.validUntil) /\ Val(d.validUntil) < t THEN p.price
         ELSE Max(0, p.price - (IF d.percentage > 0
                                THEN (p.price * d.percentage) \div 100
                                ELSE d.amount))

\* C11: getFinalPrice returns the list price when there is no discount or the
\* discount has expired, else the price less percentage% of it when
\* percentage > 0, else the price less the flat amount, and never less than 0.
C11_FinalPrice ==
    IsDefined(reads.finalPrice) =>
        /\ Val(reads.finalPrice).value
             = SpecifiedFinalPrice(Val(entity), Val(reads.finalPrice).at)
        /\ Val(reads.finalPrice).value >= 0

\* C11 without the floor at 0 and without the instant validUntil = now
C11_FinalPriceUnfloored ==
    (/\ IsDefined(reads.finalPrice)
     /\ Val(entity).discount \notin {Discount(0, 60, Undefined)}
     /\ \A d \in {Val(entity).discount} :
            IsDefined(d) /\ IsDefined(Val(d).validUntil)
                => Val(Val(d).validUntil) # Val(reads.finalPrice).at) =>
        Val(reads.finalPrice).value
            = SpecifiedFinalPrice(Val(entity), Val(reads.finalPrice).at)

\* C12: isAvailable holds iff the product is active, has stock and has more
\* stock than its threshold; stock equal to the threshold is not available.
C12_IsAvailable ==
    IsDefined(reads.isAvailable) =>
        LET p == Val(entity) IN
        /\ Val(reads.isAvailable)
             <=> (p.isActive /\ p.stock.available > 0
                    /\ p.stock.available > p.stock.threshold)
        /\ p.stock.available = p.stock.threshold => ~Val(reads.isAvailable)

\* an active product whose positive stock equals its threshold was asked
C12_Witness ==
    /\ IsDefined(entity) /\ IsDefined(reads.isAvailable)
    /\ Val(entity).isActive
    /\ Val(entity).stock.available > 0
    /\ Val(entity).stock.available = Val(entity).stock.threshold
    /\ ~Val(reads.isAvailable)

\* the stock level as specified
SpecifiedStockLevel(p) ==
    LET unavailable == ~(p.isActive /\ p.stock.available > 0
                           /\ p.stock.available > p.stock.threshold)
    IN  IF unavailable \/ p.stock.available = 0 THEN "out_of_stock"
        ELSE IF p.stock.available <= p.stock.threshold THEN "low"
        ELSE IF p.stock.available <= 3 * p.stock.threshold THEN "medium"
        ELSE "high"

\* C13: the stock level is exactly one of out_of_stock, low, medium, high:
\* out_of_stock when unavailable or without stock, else low up to the
\* threshold, else medium up to three times the threshold, else high.
C13_StockLevel ==
    IsDefined(reads.availability) =>
        /\ Val(reads.availability).stockLevel
             \in {"out_of_stock", "low", "medium", "high"}
        /\ Val(reads.availability).stockLevel = SpecifiedStockLevel(Val(entity))

\* a product with exactly three times its threshold in stock was classified
C13_Witness ==
    /\ IsDefined(entity) /\ IsDefined(reads.availability)
    /\ Val(entity).stock.threshold > 0
    /\ Val(entity).stock.available = 3 * Val(entity).stock.threshold
    /\ Val(reads.availability).stockLevel = "medium"

\* the position of a product in an array that holds it once
PositionIn(array, p) == CHOOSE i \in 1..Len(array) : array[i] = p

\* C14: applySorting leaves the array it is given in its order and returns
\* the same products ordered by the field; products that tie keep their
\* order of the input, in both directions, and without sorting or with a
\* field it has no case for the result is the input order.
C14_SortStable ==
    (IsDefined(sorter) /\ Val(sorter).at = now) =>
        LET c == Val(sorter)
            n == Len(c.output)
        IN  /\ c.after = c.array
            /\ n = Len(c.array) /\ SeqToSet(c.output) = SeqToSet(c.array)
            /\ IsDefined(c.sorting) =>
                  \A i, j \in 1..n :
                     i < j =>
                        /\ compareProducts(c.output[i], c.output[j], Val(c.sorting)) <= 0
                        /\ compareProducts(c.output[i], c.output[j], Val(c.sorting)) = 0
                              => PositionIn(c.array, c.output[i])
                                   < PositionIn(c.array, c.output[j])
            /\ (~IsDefined(c.sorting)
                   \/ Val(c.sorting).field \in {"relevance", "name"}) => c.output = c.array

\* a descending sort by rating of P3, P2, P1: the tied P2 and P1 come first,
\* in their input order
C14_Witness ==
    /\ IsDefined(sorter) /\ Val(sorter).at = now
    /\ Val(sorter).sorting = Some([field |-> "rating", direction |-> "desc"])
    /\ Val(sorter).array = <<ProductPool[3], ProductPool[2], ProductPool[1]>>
    /\ Val(sorter).output = <<ProductPool[2], ProductPool[1], ProductPool[3]>>

\* the query at hand asks for relevance, in words or by giving no sorting
SortedByRelevance(q) ==
    ~IsDefined(q.sorting) \/ Val(q.sorting).field = "relevance"

\* C15: the repository never receives the field relevance: a query sorted by
\* relevance or without sorting is run as a sort by createdAt, descending
\* when no direction was given, and its items come back in that order.
C15_RelevanceMapped ==
    /\ (pc \in {"repository", "assemble", "done"} /\ IsDefined(repoSpec)) =>
          /\ IsDefined(Val(repoSpec).sorting)
          /\ Val(Val(repoSpec).sorting).field # "relevance"
          /\ SortedByRelevance(query) =>
                /\ Val(Val(repoSpec).sorting).field = "createdAt"
                /\ Val(Val(repoSpec).sorting).direction
                     = IF IsDefined(query.sorting) THEN Val(query.sorting).direction
                       ELSE "desc"
    /\ (Succeeded /\ SortedByRelevance(query)) =>
          \A i, j \in 1..Len(Envelope.items) :
             i < j => Envelope.items[i].createdAt >= Envelope.items[j].createdAt

\* C16: once the catalog is loaded no operation, in any interleaving, changes
\* the product collection or a record of it, and the result a caller holds
\* is the result of its operation run alone on the catalog.
C16_QueriesReadOnly ==
    /\ [][isLoaded => (isLoaded' /\ products' = products)]_vars
    /\ [](\A c \in Callers :
             (ops[c].pc = "done" /\ IsDefined(ops[c].saw)) =>
                 ops[c].result = Some(LoadedResult(ops[c].invocation)))

\* both callers hold results, one of a sorted findMany without filters and
\* one of another operation, over a catalog of several products
C16_Witness ==
    /\ Len(products) >= 2
    /\ \A c \in Callers : ops[c].pc = "done" /\ IsDefined(ops[c].saw)
    /\ \E c \in Callers :
          /\ ops[c].invocation.op = "findMany"
          /\ SortsCollectionItself(ops[c].invocation)
          /\ IsDefined(ops[c].invocation.specification.sorting)
          /\ ops[c].result # Some(findManyLoaded(NoSpecification))
    /\ \E c \in Callers : ops[c].invocation.op = "findSimilarProducts"

\* C17: the dataset file is read at most once, however many operations start
\* before the data is loaded, and an operation reads the product collection
\* only after that load has completed, seeing the whole collection.
C17_LoadOnceBeforeQueries ==
    /\ fileReads <= 1
    /\ \A c \in Callers :
          /\ ops[c].pc = "ready" => isLoaded
          /\ IsDefined(ops[c].saw) =>
                /\ Val(ops[c].saw).isLoaded
                /\ loadPromise = "fulfilled"
                /\ Val(ops[c].saw).products = products

\* two operations started before the load completed have both read the
\* loaded collection after a single read of the file
C17_Witness ==
    /\ fileReads = 1
    /\ Len(products) > 0
    /\ \A c \in Callers :
          ops[c].pc = "done" /\ ops[c].waited /\ IsDefined(ops[c].saw)

\* the error codes that report a failure of the system
SystemFailures ==
    {"PERSISTENCE_ERROR", "DATA_ACCESS_ERROR", "REPOSITORY_ERROR", "INTERNAL_ERROR"}

\* the caller looked up, in the loaded catalog, an id that is not in it
LookedUpMissing(c) ==
    /\ ops[c].pc = "done"
    /\ ops[c].invocation.op \in {"findById", "findSimilarProducts", "getProductDetails"}
    /\ isLoaded
    /\ IsDefined(ops[c].saw) \/ ~ops[c].waited
    /\ \A i \in 1..Len(products) : products[i].id # ops[c].invocation.productId

\* C18: a lookup of an id that is not in the catalog returns, without
\* raising, a typed absent result that is not a system failure: null from
\* findById, NOT_FOUND from findSimilarProducts, PRODUCT_NOT_FOUND from the
\* use case (an input failure when the id is rejected by validation).
C18_MissingIsTypedAbsent ==
    \A c \in Callers :
        LookedUpMissing(c) =>
            LET inv == ops[c].invocation
                r == Val(ops[c].result)
            IN  /\ IsDefined(ops[c].result)
                /\ r.error \notin SystemFailures
                /\ inv.op = "findById" => (r.success /\ r.data = Undefined)
                /\ inv.op = "findSimilarProducts" => (~r.success /\ r.error = "NOT_FOUND")
                /\ inv.op = "getProductDetails" =>
                      /\ ~r.success
                      /\ r.error = IF validateInput(inv.productId) = "ok"
                                   THEN "PRODUCT_NOT_FOUND"
                                   ELSE validateInput(inv.productId)

\* the use case was asked for a well-formed id that a loaded, non-empty
\* catalog does not hold
C18_Witness ==
    /\ Len(products) > 0
    /\ \E c \in Callers :
          /\ LookedUpMissing(c)
          /\ ops[c].invocation.op = "getProductDetails"
          /\ ops[c].invocation.productId = "P9"
          /\ ops[c].result = Some(UseCaseFailure("PRODUCT_NOT_FOUND"))

\* C19: calculateInstallmentOptions returns no option when installments are
\* disabled or the amount is below the minimum of the method; otherwise the
\* options have quantities within [2, maxInstallments], distinct and
\* ascending, and none has a rounded amount below 5.
C19_InstallmentOptions ==
    IsDefined(installments) =>
        LET pm == Val(paymentMethod)
            amount == Val(installments).amount
            options == Val(installments).options
        IN  /\ (~pm.isInstallmentEnabled \/ amount < pm.limits.minimumAmount)
                  => options = <<>>
            /\ \A i \in 1..Len(options) :
                  /\ options[i].quantity >= 2
                  /\ options[i].quantity <= pm.maxInstallments
                  /\ options[i].amount >= 500
            /\ \A i, j \in 1..Len(options) :
                  i < j => options[i].quantity < options[j].quantity

\* 30 in up to 12 installments: the interest-free quantities 2..6 are kept
\* (6 x 5.00) and the quantities with interest are dropped
C19_Witness ==
    /\ IsDefined(paymentMethod) /\ IsDefined(installments)
    /\ Val(paymentMethod).isInstallmentEnabled
    /\ Val(paymentMethod).maxInstallments = 12
    /\ Val(installments).amount = 30
    /\ Len(Val(installments).options) = 5
    /\ Val(installments).options[5].quantity = 6
    /\ Val(installments).options[5].amount = 500

\* the interest rate, in tenths of a percent, specified for a quantity
SpecifiedInterestRate(quantity) ==
    IF quantity <= 6 THEN 0
    ELSE IF quantity <= 12 THEN 25
    ELSE IF quantity <= 18 THEN 35
    ELSE 45

C21_TransactionFees ==
    IsDefined(transactionFees) =>
        LET pm == Val(paymentMethod)
            amount == Val(transactionFees).amount
            fees == Val(transactionFees).fees
        IN  IF amount < pm.limits.minimumAmount \/ amount > pm.limits.maximumAmount
            THEN fees.thrown # "" /\ DOMAIN fees = {"thrown"}
            ELSE /\ fees.thrown = ""
                 /\ fees.totalFees * 100
                      = amount * pm.fees.totalFeePercentage * 100 + pm.fees.fixedFee * 1000000
                 /\ fees.netAmount = amount * 10000 - fees.totalFees

\* 100 on a method limited to [50, 100] with a fixed fee of 2 at 3.5%:
\* fees 5.50, net 94.50; and an amount above the maximum refused
C21_Witness ==
    /\ IsDefined(paymentMethod) /\ IsDefined(transactionFees)
    /\ Val(paymentMethod).limits.minimumAmount = 50
    /\ Val(paymentMethod).limits.maximumAmount = 100
    /\ Val(paymentMethod).fees.fixedFee = 2
    /\ Val(transactionFees).amount = 100
    /\ Val(transactionFees).fees.thrown = ""
    /\ Val(transactionFees).fees.totalFees = 55000
    /\ Val(transactionFees).fees.netAmount = 945000

\* the invariants of a PaymentMethod other than those on its caps
StatedPaymentInvariants(pm) ==
    /\ Abs(pm.fees.processingFee + pm.fees.platformFee + pm.fees.acquirerFee
             - pm.fees.totalFeePercentage) <= 1
    /\ pm.fees.totalFeePercentage <= 1500
    /\ pm.limits.minimumAmount <= pm.limits.maximumAmount
    /\ pm.type \in {"credit_card", "debit_card"} => pm.security.tokenization
    /\ pm.isInstallmentEnabled =>
          /\ pm.maxInstallments \in 2..24
          /\ pm.type = "credit_card"

\* the caps as stated: a daily cap that is present is at most the maximum
StatedCaps(pm) ==
    /\ IsDefined(pm.limits.dailyLimit) => Val(pm.limits.dailyLimit) <= pm.limits.maximumAmount
    /\ IsDefined(pm.limits.monthlyLimit) /\ IsDefined(pm.limits.dailyLimit)
          => Val(pm.limits.monthlyLimit) >= Val(pm.limits.dailyLimit)

\* the caps as enforced: a cap of 0 counts as absent, and a daily cap is at
\* least the maximum amount of one transaction
EnforcedCaps(pm) ==
    /\ TruthyNumber(pm.limits.dailyLimit)
          => Val(pm.limits.dailyLimit) >= pm.limits.maximumAmount
    /\ TruthyNumber(pm.limits.monthlyLimit) /\ TruthyNumber(pm.limits.dailyLimit)
          => Val(pm.limits.monthlyLimit) >= Val(pm.limits.dailyLimit)

\* C23, as stated: a PaymentMethod can be constructed only if its fee
\* components sum to totalFeePercentage within 0.01 and totalFeePercentage
\* <= 15, minimumAmount <= maximumAmount, a daily cap that is present is
\* <= max and a monthly cap that is present is >= daily, card types
\* tokenize, and an installment-enabled method has maxInstallments in 2..24
\* and an eligible type; any violation makes construction fail.
C23_ConstructedAsStated ==
    IsDefined(paymentInput) =>
        (IsDefined(paymentMethod) =>
            StatedPaymentInvariants(Val(paymentInput)) /\ StatedCaps(Val(paymentInput)))

\* C23, amended: as stated, except that a non-zero daily cap is >= the
\* maximum amount and non-zero monthly and daily caps satisfy monthly >=
\* daily; a cap of 0 is taken as absent.
C23_ConstructedAsEnforced ==
    IsDefined(paymentInput) =>
        /\ IsDefined(paymentMethod) => paymentMethod = paymentInput
        /\ IsDefined(paymentMethod) =>
              StatedPaymentInvariants(Val(paymentInput)) /\ EnforcedCaps(Val(paymentInput))

\* a construction that failed on the daily cap alone: 50 a day with up to
\* 100 a transaction
C23_Witness ==
    /\ IsDefined(paymentInput)
    /\ paymentMethod = Undefined
    /\ StatedPaymentInvariants(Val(paymentInput))
    /\ Val(paymentInput).limits.minimumAmount = 0
    /\ Val(paymentInput).limits.maximumAmount = 100
    /\ Val(paymentInput).limits.dailyLimit = Some(50)
    /\ Val(paymentInput).limits.monthlyLimit = Undefined

\* the weighted blend in fifteenths, from the fields of the seller
SpecifiedBlend(s, clock) ==
    LET active == {i \in 1..Len(s.certifications) :
                     ~IsDefined(s.certifications[i].validUntil)
                     \/ Val(s.certifications[i].validUntil) > clock}
    IN  6 * (2 * s.rating.average)
        + 2 * (s.metrics.onTimeDeliveryRate + s.metrics.customerSatisfactionRate
                 + s.metrics.disputeResolutionRate)
        + 3 * (25 * Cardinality(active))

\* C22: the reputation score is 40% of the rating average scaled to 100, plus
\* 40% of the mean of the three rates, plus 20% of 25 per active
\* certification, capped at 100; for every seller that can be constructed
\* it lies within [0, 100]. The score is in fifteenths.
C22_ReputationScore ==
    IsDefined(reputation) =>
        LET score == Val(reputation).score
            blend == SpecifiedBlend(Val(seller), Val(reputation).at)
        IN  /\ score = IF blend > 1500 THEN 1500 ELSE blend
            /\ score >= 0
            /\ score <= 1500

\* C22 without its range: the score is the capped blend
C22_ReputationBlend ==
    IsDefined(reputation) =>
        LET blend == SpecifiedBlend(Val(seller), Val(reputation).at)
        IN  Val(reputation).score = IF blend > 1500 THEN 1500 ELSE blend

\* C24: a Seller can be constructed only if the three rating percentages and
\* the three rates are each within [0, 100], the rating percentages sum to
\* 100 within 0.01, and no certification is issued in the future; any
\* violation makes construction fail.
C24_SellerConstructed ==
    IsDefined(seller) =>
        LET s == Val(sellerInput).data
            at == Val(sellerInput).at
        IN  /\ \A percentage \in {s.rating.positivePercentage, s.rating.neutralPercentage,
                                  s.rating.negativePercentage,
                                  s.metrics.onTimeDeliveryRate,
                                  s.metrics.customerSatisfactionRate,
                                  s.metrics.disputeResolutionRate} :
                  percentage >= 0 /\ percentage <= 100
            /\ s.rating.positivePercentage + s.rating.neutralPercentage
                  + s.rating.negativePercentage = 100
            /\ \A i \in 1..Len(s.certifications) : s.certifications[i].issuedAt <= at

\* C24 for the fields that are validated: the two rates, the sum of the
\* rating percentages and the issue dates
C24_SellerValidatedFields ==
    IsDefined(seller) =>
        LET s == Val(sellerInput).data
            at == Val(sellerInput).at
        IN  /\ \A percentage \in {s.metrics.onTimeDeliveryRate,
                                  s.metrics.customerSatisfactionRate} :
                  percentage >= 0 /\ percentage <= 100
            /\ s.rating.positivePercentage + s.rating.neutralPercentage
                  + s.rating.negativePercentage = 100
            /\ \A i \in 1..Len(s.certifications) : s.certifications[i].issuedAt <= at

\* C25: when the HTTP list request omits isActive, hasDiscount or inStock,
\* the query handed to the use case leaves that filter unspecified; the
\* filter is true or false only when the request supplies the parameter.
C25_OmittedFlagsUnspecified ==
    (pc # "idle" /\ IsDefined(request)) =>
        \A flag \in {"isActive", "hasDiscount", "inStock"} :
            IF IsDefined(Val(request)[flag])
            THEN query.filters[flag] = Some(Val(request)[flag] = Some("true"))
            ELSE query.filters[flag] = Undefined

\* C25 for the parameters that are supplied: the filter is the parameter
C25_SuppliedFlagsPassed ==
    (pc # "idle" /\ IsDefined(request)) =>
        \A flag \in {"isActive", "hasDiscount", "inStock"} :
            IsDefined(Val(request)[flag])
                => query.filters[flag] = Some(Val(request)[flag] = Some("true"))

\* C26: a list query that does not specify isActive is executed with the
\* filter isActive = true, so that no inactive product is among the items or
\* counted in pagination.total; an explicit isActive is passed through
\* unchanged.
C26_DefaultActiveOnly ==
    /\ (pc = "repository" /\ IsDefined(query.filters.isActive)) =>
          /\ IsDefined(Val(repoSpec).filters)
          /\ Val(Val(repoSpec).filters).isActive = query.filters.isActive
    /\ (Succeeded /\ ~IsDefined(query.filters.isActive)) =>
          /\ IsDefined(Val(repoSpec).filters)
          /\ Val(Val(repoSpec).filters).isActive = Some(TRUE)
          /\ \A i \in 1..Len(Envelope.items) :
                \A j \in 1..Len(products) :
                   products[j].id = Envelope.items[i].id => products[j].isActive
          /\ Envelope.pagination.total
                <= Cardinality({j \in 1..Len(products) : products[j].isActive})

\* C26 where it holds: the first definition of the use case
C26_DefaultActiveOnlyFirst == definition = 1 => C26_DefaultActiveOnly

\* the pagination metadata of an envelope with n items agree with each other
ConsistentPagination(pg, n) ==
    /\ pg.limit > 0
    /\ pg.totalPages * pg.limit >= pg.total
    /\ (pg.totalPages - 1) * pg.limit < pg.total \/ (pg.total = 0 /\ pg.totalPages = 0)
    /\ pg.hasNext <=> pg.offset + pg.limit < pg.total
    /\ pg.hasNext <=> pg.page < pg.totalPages
    /\ pg.hasPrevious <=> pg.offset > 0
    /\ pg.hasPrevious <=> pg.page > 1
    /\ n = Min(pg.limit, Max(0, pg.total - pg.offset))

\* C27: in every Success envelope totalPages = ceil(total / limit), hasNext
\* holds iff offset + limit < total iff page < totalPages, hasPrevious holds
\* iff offset > 0 iff page > 1, and the number of items is
\* min(limit, max(0, total - offset)).
C27_PaginationConsistent ==
    Succeeded => ConsistentPagination(Envelope.pagination, Len(Envelope.items))

\* C27 for the queries whose offset is that of their page: page >= 1 and
\* offset = (page - 1) x limit
C27_PaginationConsistentOnPages ==
    (/\ Succeeded
     /\ IsDefined(query.pagination)
     /\ IsDefined(Val(query.pagination).page)
     /\ Val(Val(query.pagination).page) >= 1
     /\ Val(query.pagination).limit \in 1..maxResultsPerPage
     /\ Val(query.pagination).offset
           = (Val(Val(query.pagination).page) - 1) * Val(query.pagination).limit)
      => ConsistentPagination(Envelope.pagination, Len(Envelope.items))

\* C28: no product is classified as low stock: calculateAvailability never
\* yields the stock level "low" for a product of the catalog, the lowStock
\* count of the aggregator is 0 in every result, and inStock + outOfStock is
\* the number of products aggregated.
C28_NeverLowStock ==
    /\ \A i \in 1..Len(products) : calculateAvailability(products[i]).stockLevel # "low"
    /\ Succeeded =>
          LET metrics == Envelope.aggregations.availabilityMetrics
          IN  /\ metrics.lowStock = 0
              /\ metrics.inStock + metrics.outOfStock = Len(Envelope.items)

\* a result that holds a product in stock and one whose stock is at its
\* threshold, which is counted as out of stock
C28_Witness ==
    /\ Succeeded
    /\ Envelope.aggregations.availabilityMetrics.inStock >= 1
    /\ Envelope.aggregations.availabilityMetrics.outOfStock >= 1
    /\ \E i \in 1..Len(Envelope.items) :
          \E j \in 1..Len(products) :
             /\ products[j].id = Envelope.items[i].id
             /\ products[j].isActive
             /\ products[j].stock.available > 0
             /\ products[j].stock.available = products[j].stock.threshold

\* TRUE iff the file can be read and every record of it satisfies the
\* invariants of its entity
SoundFile(file, clock) ==
    /\ file.readable
    /\ validateSellerRules(file.rawData.seller, clock)
    /\ validatePaymentRules(file.rawData.paymentMethod)
    /\ \A i \in 1..Len(file.rawData.products) :
          validateBusinessRules(file.rawData.products[i])

LookedUpDetails(c) ==
    /\ ops[c].pc = "done"
    /\ ops[c].invocation.op = "getProductDetails"
    /\ IsDefined(ops[c].saw)
    /\ Val(ops[c].saw).isLoaded

\* C30: the product-details lookup returns Success only for a visible
\* product: for an existing product that is inactive it returns
\* Failure(PRODUCT_UNAVAILABLE) unless includeInactive is true, for an unknown
\* id Failure(PRODUCT_NOT_FOUND), and the not-found check comes first.
C30_DetailsOnlyForVisible ==
    \A c \in Callers :
        LookedUpDetails(c) =>
            LET inv == ops[c].invocation
                r == Val(ops[c].result)
                found == {i \in 1..Len(products) : products[i].id = inv.productId}
            IN  /\ r.success =>
                      \E i \in found : products[i].isActive \/ inv.includeInactive
                /\ found = {} => (~r.success /\ r.error = "PRODUCT_NOT_FOUND")
                /\ r.error = "PRODUCT_UNAVAILABLE" => found # {}
                /\ \A i \in found :
                      (~products[i].isActive /\ ~inv.includeInactive)
                          => (~r.success /\ r.error = "PRODUCT_UNAVAILABLE")

\* the inactive product P4 was asked for without includeInactive and
\* refused, while the other caller got the details of P1
C30_Witness ==
    /\ LookedUpDetails("c1") /\ LookedUpDetails("c2")
    /\ ops["c1"].invocation.productId = "P4"
    /\ ~ops["c1"].invocation.includeInactive
    /\ \E i \in 1..Len(products) : products[i].id = "P4" /\ ~products[i].isActive
    /\ Val(ops["c1"].result).error = "PRODUCT_UNAVAILABLE"
    /\ ops["c2"].invocation.productId = "P1"
    /\ Val(ops["c2"].result).success

====
